---- MODULE Spec2Model ----
(***************************************************************************)
(* The event cache of the Brussels event recommender (toolsFolder/         *)
(* eventCache.py), the adapters that fill it and the two full-view         *)
(* resolvers that read it (newAgent.py, testAgent.py).                     *)
(*                                                                         *)
(* Python values are modelled as follows.                                  *)
(*   str    a sequence of one-character strings, <<"a", "b">> for "ab";    *)
(*   None   the one-element sequence None, which is no str;                *)
(*   dict   a function whose domain is the set of its keys;                *)
(*   Optional[dict]  a sequence of at most one dict, empty for None;       *)
(*   the ordered dict self.events: a sequence of [k, v] entries in         *)
(*   insertion order (assignment to an existing key keeps its place).      *)
(* A 12-digit md5 prefix is modelled as a one-symbol str whose symbol      *)
(* names the hashed key: the digest is deterministic and, collisions being *)
(* a declared non-goal of the design, injective on the keys of the model.  *)
(***************************************************************************)
EXTENDS Integers, Sequences, FiniteSets, TLC

VARIABLES
    events,       \* EventCache.events
    insertedBy,   \* history: id -> the source argument of the add_event that
                  \* wrote the record now stored under it
    now,          \* the wall clock, datetime.now(), in seconds
    ret,          \* the last call: its name, arguments and return value
    last_refresh, \* EventCache.last_refresh
    local_cache,  \* eventBriteTool.local_cache, a CacheWithTTL
    threads       \* the threads inside fetch_events_to_cache: for each its
                  \* position and its local variables

vars == <<events, insertedBy, now, ret, last_refresh, local_cache, threads>>

(***************************************************************************)
(* Bounds of the model.                                                    *)
(***************************************************************************)
MaxEvents == 2      \* records the store may hold under direct calls
MaxFound == 3       \* records the store may hold when it is searched
MaxTime == 1        \* ticks of the wall clock
MaxIds == 2         \* ids handed to a resolver in one call
MaxPage == 1        \* events on one page of an upstream answer
MaxVenues == 1      \* venues that the Eventbrite adapter asks (IdList)

(***************************************************************************)
(* Constants of the program.                                               *)
(***************************************************************************)
PrefixLen == 30     \* find_event_by_name compares the first 30 characters
BrusselsDescLen == 300  \* fetch_brussels_to_cache keeps 300 characters
FullDescLen == 300  \* the resolvers keep 300 characters of a description
TicketmasterDescLen == 300  \* fetch_ticketmaster_to_cache keeps 300 characters
SummaryDescLen == 100   \* get_llm_summary keeps 100 characters of a description
SummaryLimit == 50  \* the default limit of get_llm_summary
ttl_seconds == 36000    \* EventCache.ttl_seconds
CacheTtl == 36000   \* the default cache_ttl of fetch_events_to_cache
EventbriteDescLen == 500    \* fetch_events_to_cache keeps 500 characters
HttpOk == 200       \* the status that fetch_events_to_cache accepts
ForLlmEvents == 15  \* the adapters' minimal views list the first 15 events
ForLlmNameLen == 80 \* and keep 80 characters of a name,
ForLlmDateLen == 16 \* 16 of a date
ForLlmDescLen == 80 \* and 80 of a description

(***************************************************************************)
(* Python str and dict operations.                                         *)
(***************************************************************************)
None == <<"<None>">>

Min(a, b) == IF a < b THEN a ELSE b

\* bool(v) of a str or None: None and '' are falsy
Truthy(v) == v # None /\ v # <<>>

\* a or b
Or(a, b) == IF Truthy(a) THEN a ELSE b

UpperCase ==
    <<"A", "B", "C", "D", "E", "F", "G", "H", "I", "J", "K", "L", "M", "N",
      "O", "P", "Q", "R", "S", "T", "U", "V", "W", "X", "Y", "Z">>

LowerCase ==
    <<"a", "b", "c", "d", "e", "f", "g", "h", "i", "j", "k", "l", "m", "n",
      "o", "p", "q", "r", "s", "t", "u", "v", "w", "x", "y", "z">>

\* c.lower() of one character
LowerChar(c) ==
    IF \E i \in 1..Len(UpperCase) : UpperCase[i] = c
    THEN LowerCase[CHOOSE i \in 1..Len(UpperCase) : UpperCase[i] = c]
    ELSE c

Lower(s) == <<>> \o [i \in 1..Len(s) |-> LowerChar(s[i])]

IsSpace(c) == c = " "

RECURSIVE LStrip(_)
LStrip(s) == IF s # <<>> /\ IsSpace(Head(s)) THEN LStrip(Tail(s)) ELSE s

RECURSIVE RStrip(_)
RStrip(s) ==
    IF s # <<>> /\ IsSpace(s[Len(s)]) THEN RStrip(SubSeq(s, 1, Len(s) - 1)) ELSE s

Strip(s) == RStrip(LStrip(s))

\* s[:n]
Slice(s, n) == SubSeq(s, 1, Min(n, Len(s)))

\* sub in s
Contains(sub, s) ==
    \E i \in 0..(Len(s) - Len(sub)) : SubSeq(s, i + 1, i + Len(sub)) = sub

\* c * n
Repeat(c, n) == <<>> \o [i \in 1..n |-> c]

\* s.replace(old, new) for a one-character old
RECURSIVE Replace(_, _, _)
Replace(s, old, new) ==
    IF s = <<>> THEN <<>>
    ELSE IF Len(s) = 1 THEN (IF s[1] = old THEN new ELSE s)
    ELSE Replace(SubSeq(s, 1, Len(s) \div 2), old, new)
            \o Replace(SubSeq(s, Len(s) \div 2 + 1, Len(s)), old, new)

\* f"{v}" of a str or None
Format(v) == IF v = None THEN <<"N", "o", "n", "e">> ELSE v

\* Optional[dict]
Absent == <<>>

Some(d) == <<d>>

\* {}
EmptyDict == [k \in {} |-> None]

\* d.get(k, default)
Get(d, k, default) == IF k \in DOMAIN d THEN d[k] ELSE default

\* {**d, **e}
Merge(d, e) ==
    [k \in DOMAIN d \cup DOMAIN e |-> IF k \in DOMAIN e THEN e[k] ELSE d[k]]

(***************************************************************************)
(* The provider tags.                                                      *)
(***************************************************************************)
Eventbrite == <<"e", "v", "e", "n", "t", "b", "r", "i", "t", "e">>
Brussels == <<"b", "r", "u", "s", "s", "e", "l", "s">>
Ticketmaster == <<"t", "i", "c", "k", "e", "t", "m", "a", "s", "t", "e", "r">>

Sources == {Eventbrite, Brussels, Ticketmaster}

(***************************************************************************)
(* EventCache                                                              *)
(***************************************************************************)
\* hashlib.md5(key.encode()).hexdigest()[:12]
Md5Hex12(key) == <<"md5:" \o ToString(key)>>

\* the key without the provider tag
HashedKeyNameOnly(name, source) == Lower(Format(name))

\* the key of a name that is trimmed as well
HashedKeyStripped(name, source) ==
    Lower(Format(source) \o <<":">> \o Strip(Format(name)))

\* the str that _generate_id hashes
HashedKey(name, source) == Lower(Format(source) \o <<":">> \o Format(name))

\* an id that depends on the position of insertion
_generate_id_positional(name, source) ==
    Md5Hex12(HashedKey(name, source) \o <<ToString(Len(events))>>)

_generate_id(name, source) == Md5Hex12(HashedKey(name, source))

\* datetime.now().isoformat()
IsoFormat(t) == <<"time:" \o ToString(t)>>

Keys(store) == {store[i].k : i \in 1..Len(store)}

Values(store) == [i \in 1..Len(store) |-> store[i].v]

IndexOf(store, k) == CHOOSE i \in 1..Len(store) : store[i].k = k

\* store.setdefault(k, v): the first write wins
PutIfAbsent(store, k, v) ==
    IF k \in Keys(store) THEN store ELSE Append(store, [k |-> k, v |-> v])

\* a store that keeps the earlier record beside the later one
PutAppend(store, k, v) == Append(store, [k |-> k, v |-> v])

\* store[k] = v of an ordered dict
Put(store, k, v) ==
    IF k \in Keys(store)
    THEN [store EXCEPT ![IndexOf(store, k)] = [k |-> k, v |-> v]]
    ELSE Append(store, [k |-> k, v |-> v])

\* self.events.get(event_id), an Optional[dict]
Lookup(store, event_id) ==
    IF event_id \in Keys(store) THEN Some(store[IndexOf(store, event_id)].v) ELSE Absent

\* the injected keys written first, so that the event's own keys win
StoredEventWins(event, source, event_id, t) ==
    Merge([_id |-> event_id, _source |-> source, _cached_at |-> IsoFormat(t)], event)

\* the injected keys alone
StoredInjectedOnly(event, source, event_id, t) ==
    [_id |-> event_id, _source |-> source, _cached_at |-> IsoFormat(t)]

\* the record that add_event stores
Stored(event, source, event_id, t) ==
    Merge(event, [_id |-> event_id, _source |-> source, _cached_at |-> IsoFormat(t)])

\* the store after self.events[event_id] = {...} of add_event at time t
AddTo(store, event, source, t) ==
    LET event_id == _generate_id(Get(event, "name", <<>>), source) IN
    Put(store, event_id, Stored(event, source, event_id, t))

\* history: the writers of the records of store2, which addedIds were written
\* by source
Writers(store2, addedIds, source) ==
    [k \in Keys(store2) |-> IF k \in addedIds THEN source ELSE insertedBy[k]]

add_event(event, source) ==
    LET event_id == _generate_id(Get(event, "name", <<>>), source) IN
    /\ events' = AddTo(events, event, source, now)
    /\ insertedBy' = Writers(events', {event_id}, source)
    /\ ret' = [op |-> "add_event", event |-> event, source |-> source,
               value |-> event_id, before |-> Lookup(events, event_id)]
    /\ UNCHANGED <<now, last_refresh, threads, local_cache>>

\* what a call does: it returns a value or raises
Return(v) == [outcome |-> "return", value |-> v]

Raise(exc) == [outcome |-> "raise", value |-> Absent, exc |-> exc]

get_event(event_id) ==
    /\ ret' = [op |-> "get_event", event_id |-> event_id]
                 @@ Return(Lookup(events, event_id))
    /\ UNCHANGED <<events, insertedBy, now, last_refresh, threads, local_cache>>

\* event.get('name', '')
NameField(event) == Get(event, "name", <<>>)

\* event.get('name', '').lower().strip() == name_lower
ExactMatch(event, name_lower) == Strip(Lower(NameField(event))) = name_lower

\* the two tests of the fuzzy loop on one event
FuzzyMatch(event, name_lower) ==
    LET event_name == Lower(NameField(event)) IN
    \/ Contains(name_lower, event_name)
    \/ Contains(event_name, name_lower)
    \/ Slice(name_lower, PrefixLen) = Slice(event_name, PrefixLen)

\* a for loop over self.events.values() that returns the first event that
\* passes the test; .lower() of a name that is None raises AttributeError.
\* The loop stops at the first event that raises or matches: the indexes at
\* which the exact loop and the fuzzy loop can stop.
ExactStops(store, name_lower) ==
    {i \in 1..Len(store) :
        NameField(store[i].v) = None \/ ExactMatch(store[i].v, name_lower)}

FuzzyStops(store, name_lower) ==
    {i \in 1..Len(store) :
        NameField(store[i].v) = None \/ FuzzyMatch(store[i].v, name_lower)}

First(S) == CHOOSE i \in S : \A j \in S : i <= j

LoopOutcome(store, stops) ==
    IF NameField(store[First(stops)].v) = None
    THEN Raise("AttributeError")
    ELSE Return(Some(store[First(stops)].v))

FindEventByName(store, name, fuzzy) ==
    LET name_lower == Strip(Lower(name))
        exact == ExactStops(store, name_lower)
        loose == FuzzyStops(store, name_lower)
    IN  IF exact # {} THEN LoopOutcome(store, exact)
        ELSE IF fuzzy /\ loose # {} THEN LoopOutcome(store, loose)
        ELSE Return(Absent)

find_event_by_name(name, fuzzy) ==
    /\ ret' = [op |-> "find_event_by_name", name |-> name, fuzzy |-> fuzzy]
                 @@ FindEventByName(events, name, fuzzy)
    /\ UNCHANGED <<events, insertedBy, now, last_refresh, threads, local_cache>>

\* [e for e in self.events.values() if e.get('_source') == source]
BySource(store, source) ==
    Values(SelectSeq(store, LAMBDA e : Get(e.v, "_source", None) = source))

get_events_by_source(source) ==
    /\ ret' = [op |-> "get_events_by_source", source |-> source,
               value |-> BySource(events, source)]
    /\ UNCHANGED <<events, insertedBy, now, last_refresh, threads, local_cache>>

NotOfSource(store, source) ==
    SelectSeq(store, LAMBDA e : Get(e.v, "_source", None) # source)

clear(source) ==
    /\ events' = IF Truthy(source) THEN NotOfSource(events, source) ELSE <<>>
    /\ insertedBy' = [k \in Keys(events') |-> insertedBy[k]]
    /\ ret' = [op |-> "clear", source |-> source]
    /\ UNCHANGED <<now, last_refresh, threads, local_cache>>

(***************************************************************************)
(* The full-view resolvers of newAgent.py and testAgent.py.  A block of    *)
(* the output text is modelled by the values that its f-string             *)
(* interpolates, and the text by the list of its blocks.                   *)
(***************************************************************************)
Unknown == <<"U", "n", "k", "n", "o", "w", "n">>

DateInconnue ==
    <<"D", "a", "t", "e", " ", "i", "n", "c", "o", "n", "n", "u", "e">>

LieuNonPrecise ==
    <<"L", "i", "e", "u", " ", "n", "o", "n", " ", "p", "r", "é", "c",
      "i", "s", "é">>

PrixNonPrecise ==
    <<"P", "r", "i", "x", " ", "n", "o", "n", " ", "p", "r", "é", "c",
      "i", "s", "é">>

PasDeDescription ==
    <<"P", "a", "s", " ", "d", "e", " ", "d", "e", "s", "c", "r", "i",
      "p", "t", "i", "o", "n", " ", "d", "i", "s", "p", "o", "n", "i",
      "b", "l", "e">>

LienNonDisponible ==
    <<"L", "i", "e", "n", " ", "n", "o", "n", " ", "d", "i", "s", "p",
      "o", "n", "i", "b", "l", "e">>

Https == <<"h", "t", "t", "p", "s", ":", "/", "/">>

Http == <<"h", "t", "t", "p">>

Ellipsis == <<".", ".", ".">>

\* s.split(sep): the parts of s between the occurrences of the character sep
RECURSIVE Split(_, _)
Split(s, sep) ==
    LET at == {i \in 1..Len(s) : s[i] = sep} IN
    IF at = {} THEN <<s>>
    ELSE <<SubSeq(s, 1, First(at) - 1)>>
            \o Split(SubSeq(s, First(at) + 1, Len(s)), sep)

\* s.startswith(prefix)
StartsWith(s, prefix) == Len(s) >= Len(prefix) /\ SubSeq(s, 1, Len(prefix)) = prefix

\* str(date).replace('T', ' à ').split('+')[0].split('.')[0] if 'T' in it
RewriteDate(date) ==
    IF Contains(<<"T">>, date)
    THEN Split(Split(Replace(date, "T", <<" ", "à", " ">>), "+")[1], ".")[1]
    ELSE date

\* the date line: an ISO timestamp is rewritten
DisplayDate(event) ==
    RewriteDate(Or(Or(Get(event, "date", None), Get(event, "date_start", None)),
                   DateInconnue))

\* the location line
DisplayLocation(event) ==
    LET venue == Or(Get(event, "venue", None), LieuNonPrecise)
        address == Or(Get(event, "address", None), <<>>)
    IN  IF Truthy(address) /\ Truthy(Strip(address))
        THEN venue \o <<" ", "-", " ">> \o address
        ELSE venue

\* str(description).replace('\n', ' ').replace('\r', ' ').strip()
CleanDescription(event) ==
    Strip(Replace(Replace(Or(Get(event, "description", None), PasDeDescription),
                          "\n", <<" ">>), "\r", <<" ">>))

\* newAgent.py: the block of a record that was found
DetailsBlock(idx, event) ==
    [idx |-> idx,
     kind |-> "event",
     name |-> Format(Get(event, "name", Unknown)),
     date |-> DisplayDate(event),
     location |-> DisplayLocation(event),
     price |-> LET price == Or(Get(event, "price", None), PrixNonPrecise) IN
               IF ~Truthy(price) \/ Strip(price) = <<>> THEN PrixNonPrecise
               ELSE price,
     url |-> LET url == Or(Get(event, "url", None), <<>>)
                 full == IF Truthy(url) /\ ~StartsWith(url, Http)
                         THEN Https \o url ELSE url
             IN  IF ~Truthy(full) \/ Strip(full) = <<>> THEN LienNonDisponible
                 ELSE full,
     description |-> LET description == CleanDescription(event) IN
                     IF Len(description) > FullDescLen
                     THEN Slice(description, FullDescLen) \o Ellipsis
                     ELSE description]

\* newAgent.py: the block of an id that was not found
NotFoundBlock(idx, event_id) ==
    [idx |-> idx, kind |-> "not_found", event_id |-> event_id]

\* [eid.strip() for eid in event_ids.split(',') if eid.strip()]
ParseIds(event_ids) ==
    LET parts == Split(event_ids, ",")
        kept == SelectSeq(parts, LAMBDA eid : Strip(eid) # <<>>)
    IN  [i \in 1..Len(kept) |-> Strip(kept[i])]

\* the list results of get_event_details_by_ids
DetailsByIds(store, ids) ==
    [idx \in 1..Len(ids) |->
        IF Lookup(store, ids[idx]) # Absent
        THEN DetailsBlock(idx, Lookup(store, ids[idx])[1])
        ELSE NotFoundBlock(idx, ids[idx])]

\* event_ids: a str of ids separated by commas.  The text returned is the
\* blocks joined by blank lines, or 'Aucun événement trouvé.' when there is
\* none, followed by a fixed instruction.
get_event_details_by_ids(event_ids) ==
    /\ ret' = [op |-> "get_event_details_by_ids", event_ids |-> event_ids,
               ids |-> ParseIds(event_ids)]
                 @@ Return(DetailsByIds(events, ParseIds(event_ids)))
    /\ UNCHANGED <<events, insertedBy, now, last_refresh, threads, local_cache>>

\* testAgent.py: the dict of a record that was found
FullDetails(event) ==
    [name |-> Get(event, "name", Unknown),
     date |-> DisplayDate(event),
     location |-> DisplayLocation(event),
     price |-> Or(Get(event, "price", None), PrixNonPrecise),
     url |-> LET url == Or(Get(event, "url", None), <<>>)
                 full == IF Truthy(url) /\ ~StartsWith(url, Http)
                         THEN Https \o url ELSE url
             IN  IF ~Truthy(full) THEN LienNonDisponible ELSE full,
     description |-> Slice(CleanDescription(event), FullDescLen)]

\* the for loop of get_full_event_details: an id that is not in the store
\* adds nothing to results
RECURSIVE FullEventDetails(_, _)
FullEventDetails(store, event_ids) ==
    IF event_ids = <<>> THEN <<>>
    ELSE (IF Lookup(store, Strip(Head(event_ids))) # Absent
          THEN <<FullDetails(Lookup(store, Strip(Head(event_ids)))[1])>>
          ELSE <<>>)
            \o FullEventDetails(store, Tail(event_ids))

\* event_ids: a list of ids
get_full_event_details(event_ids) ==
    /\ ret' = [op |-> "get_full_event_details", event_ids |-> event_ids]
                 @@ Return(FullEventDetails(events, event_ids))
    /\ UNCHANGED <<events, insertedBy, now, last_refresh, threads, local_cache>>

\* the blocks of format_events_to_text, numbered from 1
FormatEvents(full_events) ==
    [idx \in 1..Len(full_events) |->
        [idx |-> idx,
         kind |-> "event",
         name |-> Format(full_events[idx].name),
         date |-> full_events[idx].date,
         location |-> full_events[idx].location,
         price |-> full_events[idx].price,
         url |-> full_events[idx].url,
         description |-> full_events[idx].description]]

\* testAgent.chat, steps 4 and 5: the list that get_full_event_details
\* returned is handed to format_events_to_text
format_events_to_text ==
    /\ ret.op = "get_full_event_details"
    /\ ret' = [op |-> "format_events_to_text", event_ids |-> ret.event_ids,
               events |-> ret.value]
                 @@ Return(FormatEvents(ret.value))
    /\ UNCHANGED <<events, insertedBy, now, last_refresh, threads, local_cache>>

(***************************************************************************)
(* toolsFolder/eventBrusselsTool.py                                        *)
(***************************************************************************)
Gratuit == <<"G", "r", "a", "t", "u", "i", "t">>
Payant == <<"P", "a", "y", "a", "n", "t">>

\* the dict that fetch_brussels_to_cache builds from one upstream event
BrusselsFullEvent(event) ==
    LET fr == event.translations.fr
        place_fr == event.place.translations.fr
    IN  [name |-> Get(fr, "name", None),
         date |-> Get(event, "date_start", None),
         date_start |-> Get(event, "date_start", None),
         date_end |-> Get(event, "date_end", None),
         venue |-> Get(place_fr, "name", None),
         address |-> Format(Get(place_fr, "address_line1", None)) \o <<",", " ">>
                        \o Format(Get(place_fr, "address_zip", None)) \o <<" ">>
                        \o Format(Get(place_fr, "address_city", None)),
         price |-> IF Get(event, "is_free", FALSE) THEN Gratuit ELSE Payant,
         description |->
            Slice(Replace(Or(Or(Get(fr, "longdescr", None),
                                Get(fr, "shortdescr", None)), <<>>),
                          "\n", <<" ">>),
                  BrusselsDescLen),
         url |-> Or(Or(Get(fr, "agenda_url", None), Get(fr, "website", None)),
                    Get(place_fr, "website", None))]

\* the upstream events of the page that have a French translation
RECURSIVE WithFr(_)
WithFr(all_events) ==
    IF all_events = <<>> THEN <<>>
    ELSE (IF "fr" \in DOMAIN Head(all_events).translations
          THEN <<BrusselsFullEvent(Head(all_events))>> ELSE <<>>)
            \o WithFr(Tail(all_events))

\* the store after add_event of each dict of full_events in turn
RECURSIVE AddAll(_, _, _, _)
AddAll(store, full_events, source, t) ==
    IF full_events = <<>> THEN store
    ELSE AddAll(AddTo(store, Head(full_events), source, t), Tail(full_events),
                source, t)

\* cached_events: each dict with the id that add_event returned
Cached(full_events, source) ==
    [i \in 1..Len(full_events) |->
        Merge(full_events[i],
              [_id |-> _generate_id(Get(full_events[i], "name", <<>>), source)])]

\* event['place']['translations']['fr'] raises KeyError for an event that has
\* a French translation and whose place has none
RaisesKeyError(event) ==
    /\ "fr" \in DOMAIN event.translations
    /\ "fr" \notin DOMAIN event.place.translations

\* the events that the for loop handles before it ends or raises
Handled(all_events) ==
    LET bad == {i \in 1..Len(all_events) : RaisesKeyError(all_events[i])} IN
    IF bad = {} THEN all_events ELSE SubSeq(all_events, 1, First(bad) - 1)

\* the outcome of the adapter: what it returns or raises, the store it leaves
\* and the number of upstream requests it made.  response: the upstream
\* answer, [ok |-> FALSE] when the request, the status or the JSON body fails,
\* else the list of its events
BrusselsOutcome(store, response, t) ==
    IF ~response.ok
    THEN [store |-> store, added |-> {}, requests |-> 1] @@ Return(<<>>)
    ELSE LET full_events == WithFr(Handled(response.events)) IN
         [store |-> AddAll(store, full_events, Brussels, t),
          added |-> {_generate_id(Get(full_events[i], "name", <<>>), Brussels) :
                        i \in 1..Len(full_events)},
          requests |-> 1]
           @@ (IF Handled(response.events) = response.events
               THEN Return(Cached(full_events, Brussels))
               ELSE Raise("KeyError"))

fetch_brussels_to_cache(response) ==
    LET out == BrusselsOutcome(events, response, now) IN
    /\ events' = out.store
    /\ insertedBy' = Writers(events', out.added, Brussels)
    /\ ret' = [op |-> "fetch_brussels_to_cache", response |-> response,
               before |-> events, requests |-> out.requests,
               outcome |-> out.outcome, value |-> out.value]
    /\ UNCHANGED <<now, last_refresh, threads, local_cache>>

(***************************************************************************)
(* toolsFolder/ticketMasterTool.py                                         *)
(***************************************************************************)
Digits == <<"0", "1", "2", "3", "4", "5", "6", "7", "8", "9">>

\* f"{n}" of a natural number
RECURSIVE Str(_)
Str(n) ==
    IF n < 10 THEN <<Digits[n + 1]>> ELSE Str(n \div 10) \o <<Digits[(n % 10) + 1]>>

PrixNonDisponible ==
    <<"P", "r", "i", "x", " ", "n", "o", "n", " ", "d", "i", "s", "p", "o", "n",
      "i", "b", "l", "e">>

APartirDe == <<"À", " ", "p", "a", "r", "t", "i", "r", " ", "d", "e", " ">>

Eur == <<"E", "U", "R">>

\* price_str of one upstream event; a price of 0 is falsy
PriceStr(event) ==
    IF "priceRanges" \in DOMAIN event /\ event.priceRanges # <<>>
    THEN LET pr == event.priceRanges[1]
             price_min == Get(pr, "min", 0)
             price_max == Get(pr, "max", 0)
             currency == Get(pr, "currency", Eur)
         IN  IF price_min # 0 /\ price_max # 0
             THEN Str(price_min) \o <<"-">> \o Str(price_max) \o <<" ">> \o currency
             ELSE IF price_min # 0
             THEN APartirDe \o Str(price_min) \o <<" ">> \o currency
             ELSE PrixNonDisponible
    ELSE PrixNonDisponible

\* the dict that fetch_ticketmaster_to_cache builds from one upstream event
TicketmasterFullEvent(event) ==
    LET venue_data == Get(Get(event, "_embedded", EmptyDict), "venues", <<EmptyDict>>)[1]
        start == event.dates.start
    IN  [name |-> event.name,
         date |-> Get(start, "dateTime", Get(start, "localDate", None)),
         venue |-> Get(venue_data, "name", None),
         address |-> Get(Get(venue_data, "address", EmptyDict), "line1", None),
         price |-> PriceStr(event),
         description |-> Slice(Get(event, "info", Get(event, "pleaseNote", <<>>)),
                               TicketmasterDescLen),
         url |-> event.url]

\* event['name'], event['dates'] and event['url'] raise KeyError for an event
\* without that key
TicketmasterRaises(event) == {"name", "dates", "url"} \ DOMAIN event # {}

\* the events that the for loop handles before it ends or raises
TicketmasterHandled(events_) ==
    LET bad == {i \in 1..Len(events_) : TicketmasterRaises(events_[i])} IN
    IF bad = {} THEN events_ ELSE SubSeq(events_, 1, First(bad) - 1)

\* the outcome of the adapter: what it returns or raises, the store it leaves
\* and the number of upstream requests it made.  has_key: TICKETMASTER_API_KEY
\* is set; response: the upstream answer, [ok |-> FALSE] when the request,
\* the status or the JSON body fails, else the parsed body data
TicketmasterOutcome(store, has_key, response, t) ==
    IF ~has_key
    THEN [store |-> store, added |-> {}, requests |-> 0] @@ Return(<<>>)
    ELSE IF ~response.ok
    THEN [store |-> store, added |-> {}, requests |-> 1] @@ Return(<<>>)
    ELSE LET events_ == Get(Get(response.data, "_embedded", EmptyDict), "events", <<>>)
             handled == TicketmasterHandled(events_)
             full_events == [i \in 1..Len(handled) |-> TicketmasterFullEvent(handled[i])]
         IN  [store |-> AddAll(store, full_events, Ticketmaster, t),
              added |-> {_generate_id(full_events[i].name, Ticketmaster) :
                            i \in 1..Len(full_events)},
              requests |-> 1]
               @@ (IF handled = events_ THEN Return(Cached(full_events, Ticketmaster))
                   ELSE Raise("KeyError"))

fetch_ticketmaster_to_cache(has_key, response) ==
    LET out == TicketmasterOutcome(events, has_key, response, now) IN
    /\ events' = out.store
    /\ insertedBy' = Writers(events', out.added, Ticketmaster)
    /\ ret' = [op |-> "fetch_ticketmaster_to_cache", has_key |-> has_key,
               response |-> response, before |-> events, requests |-> out.requests,
               outcome |-> out.outcome, value |-> out.value]
    /\ UNCHANGED <<now, last_refresh, threads, local_cache>>

(***************************************************************************)
(* toolsFolder/eventBriteTool.py                                           *)
(***************************************************************************)
\* cache_key
CacheKey == "eventbrite:events:all"

\* del d[key]
Delete(d, key) == [k \in DOMAIN d \ {key} |-> d[k]]

\* d[key] = value
Set(d, key, value) == [k \in DOMAIN d \cup {key} |-> IF k = key THEN value ELSE d[k]]

\* CacheWithTTL.get at time t: the value returned, an Optional, and the cache
\* it leaves; an entry that has expired is deleted
CacheGet(lc, key, t) ==
    IF key \in DOMAIN lc.cache
    THEN IF t < Get(lc.expiry, key, t)
         THEN [value |-> Some(lc.cache[key]), lc |-> lc]
         ELSE [value |-> Absent,
               lc |-> [cache |-> Delete(lc.cache, key),
                       expiry |-> Delete(lc.expiry, key)]]
    ELSE [value |-> Absent, lc |-> lc]

\* CacheWithTTL.set at time t
CacheSet(lc, key, value, ttl, t) ==
    [cache |-> Set(lc.cache, key, value), expiry |-> Set(lc.expiry, key, t + ttl)]

\* the dict that fetch_events_to_cache builds from one upstream event
EventbriteEvent(event) ==
    LET event_name == event.name.text
        event_desc == IF "description" \in DOMAIN event
                      THEN Slice(Get(event.description, "text", <<>>), EventbriteDescLen)
                      ELSE <<>>
    IN  [name |-> event_name,
         date |-> event.start.local,
         url |-> event.url,
         description |-> Replace(event_desc, "\n", <<" ">>),
         full_text |-> Format(event_name) \o <<".", " ">> \o event_desc]

\* event['name'], event['start'] and event['url'] raise KeyError for an event
\* without that key
EventbriteRaises(event) == {"name", "start", "url"} \ DOMAIN event # {}

\* the loop over IdList, one upstream answer for each venue: requests.get
\* raises (answer.raises), or gives a status and a body that is JSON or not.
\* Nothing in the loop is caught.
RECURSIVE VenueLoop(_)
VenueLoop(answers) ==
    IF answers = <<>> THEN [requests |-> 0] @@ Return(<<>>)
    ELSE LET r == Head(answers)
             rest == VenueLoop(Tail(answers))
         IN  IF r.raises THEN [requests |-> 1] @@ Raise("ConnectionError")
             ELSE IF r.status # HttpOk
             THEN [requests |-> 1 + rest.requests, outcome |-> rest.outcome,
                   value |-> rest.value]
             ELSE IF ~r.json THEN [requests |-> 1] @@ Raise("ValueError")
             ELSE IF \E i \in 1..Len(r.events) : EventbriteRaises(r.events[i])
             THEN [requests |-> 1] @@ Raise("KeyError")
             ELSE [requests |-> 1 + rest.requests, outcome |-> rest.outcome,
                   value |-> IF rest.outcome = "raise" THEN <<>>
                             ELSE [i \in 1..Len(r.events) |-> EventbriteEvent(r.events[i])]
                                     \o rest.value]

\* the outcome of fetch_events_to_cache at time t on the cache lc: what it
\* returns or raises, the cache it leaves and the number of upstream requests
\* it made.  answers: the upstream answers, one for each venue of IdList.  A
\* cached list that is empty is fetched again ("if cached_events:").
EventbriteOutcome(lc, force_refresh, cache_ttl, answers, t) ==
    LET got == IF force_refresh THEN [value |-> Absent, lc |-> lc]
               ELSE CacheGet(lc, CacheKey, t)
        hit == got.value # Absent /\ got.value[1] # <<>>
        out == VenueLoop(answers)
    IN  [lc |-> IF hit THEN got.lc
                ELSE IF out.outcome = "raise" THEN got.lc
                ELSE CacheSet(got.lc, CacheKey, out.value, cache_ttl, t),
         requests |-> IF hit THEN 0 ELSE out.requests,
         outcome |-> IF hit THEN "return" ELSE out.outcome,
         value |-> IF hit THEN got.value[1] ELSE out.value,
         exc |-> IF hit \/ out.outcome = "return" THEN "none" ELSE out.exc]

fetch_events_to_cache(force_refresh, cache_ttl, answers) ==
    LET out == EventbriteOutcome(local_cache, force_refresh, cache_ttl, answers, now) IN
    /\ local_cache' = out.lc
    /\ ret' = [op |-> "fetch_events_to_cache", force_refresh |-> force_refresh,
               answers |-> answers, before |-> events,
               requests |-> out.requests, outcome |-> out.outcome,
               value |-> out.value]
    /\ UNCHANGED <<events, insertedBy, now, last_refresh, threads>>

(***************************************************************************)
(* The minimal views: EventCache.get_llm_summary and the adapters'         *)
(* get_..._events_for_llm.  A view is a text of lines joined by '\n'; the  *)
(* parts that each line interpolates are kept beside the text.             *)
(***************************************************************************)
NA ==
    <<"N", "/", "A">>

AucunBrussels ==
    <<"A", "u", "c", "u", "n", " ", "é", "v", "é", "n", "e", "m",
      "e", "n", "t", " ", "B", "r", "u", "s", "s", "e", "l", "s",
      " ", "d", "i", "s", "p", "o", "n", "i", "b", "l", "e", ".">>

AucunTicketmaster ==
    <<"A", "u", "c", "u", "n", " ", "é", "v", "é", "n", "e", "m",
      "e", "n", "t", " ", "T", "i", "c", "k", "e", "t", "M", "a",
      "s", "t", "e", "r", " ", "d", "i", "s", "p", "o", "n", "i",
      "b", "l", "e", ".">>

BrusselsHeader ==
    <<"-", "-", "-", " ", "B", "R", "U", "S", "S", "E", "L", "S",
      " ", "A", "P", "I", " ", "-", "-", "-", "\n">>

TicketmasterHeader ==
    <<"-", "-", "-", " ", "T", "I", "C", "K", "E", "T", "M", "A",
      "S", "T", "E", "R", " ", "-", "-", "-", "\n">>

\* f"[{event_id}] {name} | {date} | {desc}"
LineText(part) ==
    <<"[">> \o Format(part.id) \o <<"]", " ">> \o Format(part.name)
        \o <<" ", "|", " ">> \o Format(part.date) \o <<" ", "|", " ">> \o part.desc

\* "\n".join(lines)
RECURSIVE JoinLines(_)
JoinLines(lines) ==
    IF lines = <<>> THEN <<>>
    ELSE IF Len(lines) = 1 THEN lines[1]
    ELSE lines[1] \o <<"\n">> \o JoinLines(Tail(lines))

ViewText(parts) == JoinLines([i \in 1..Len(parts) |-> LineText(parts[i])])

\* the records that get_llm_summary does not skip
OfSource(store, source) ==
    SelectSeq(store, LAMBDA e : ~(Truthy(source) /\ Get(e.v, "_source", None) # source))

\* a line that also shows the price
SummaryPartWithPrice(e) ==
    [id |-> e.k,
     name |-> Get(e.v, "name", Unknown),
     date |-> Or(Get(e.v, "date", None), Get(e.v, "date_start", DateInconnue)),
     desc |-> Slice(Or(Get(e.v, "description", <<>>), <<>>), SummaryDescLen)
                 \o Format(Get(e.v, "price", <<>>))]

\* the parts of the line of one record
SummaryPart(e) ==
    [id |-> e.k,
     name |-> Get(e.v, "name", Unknown),
     date |-> Or(Get(e.v, "date", None), Get(e.v, "date_start", DateInconnue)),
     desc |-> Slice(Or(Get(e.v, "description", <<>>), <<>>), SummaryDescLen)]

\* the loop stops when count reaches limit
SummaryParts(store, source, limit) ==
    LET kept == OfSource(store, source)
        n == IF limit < 0 THEN 0 ELSE Min(limit, Len(kept))
    IN  [i \in 1..n |-> SummaryPart(kept[i])]

get_llm_summary(source, limit) ==
    /\ ret' = [op |-> "get_llm_summary", source |-> source, limit |-> limit,
               parts |-> SummaryParts(events, source, limit)]
                 @@ Return(ViewText(SummaryParts(events, source, limit)))
    /\ UNCHANGED <<events, insertedBy, now, last_refresh, threads, local_cache>>

\* the parts of the lines of get_brussels_events_for_llm
BrusselsParts(events_) ==
    [i \in 1..Min(ForLlmEvents, Len(events_)) |->
        [id |-> Get(events_[i], "_id", NA),
         name |-> Slice(Or(Get(events_[i], "name", None), Unknown), ForLlmNameLen),
         date |-> Slice(Or(Get(events_[i], "date_start", None), DateInconnue),
                        ForLlmDateLen),
         desc |-> Slice(Or(Get(events_[i], "description", None), <<>>),
                        ForLlmDescLen)]]

\* what a minimal view of an adapter returns for the outcome of its fetch
ForLlm(out, parts, none, header) ==
    IF out.outcome = "raise" THEN [outcome |-> "raise", value |-> <<>>, parts |-> <<>>]
    ELSE IF out.value = <<>> THEN [parts |-> <<>>] @@ Return(none)
    ELSE [parts |-> parts] @@ Return(header \o ViewText(parts))

get_brussels_events_for_llm(response) ==
    LET out == BrusselsOutcome(events, response, now) IN
    /\ events' = out.store
    /\ insertedBy' = Writers(events', out.added, Brussels)
    /\ ret' = [op |-> "get_brussels_events_for_llm", response |-> response,
               events |-> out.value]
                 @@ ForLlm(out, BrusselsParts(out.value), AucunBrussels, BrusselsHeader)
    /\ UNCHANGED <<now, last_refresh, threads, local_cache>>

\* the parts of the lines of get_ticketmaster_events_for_llm
TicketmasterParts(events_) ==
    [i \in 1..Min(ForLlmEvents, Len(events_)) |->
        [id |-> Get(events_[i], "_id", NA),
         name |-> Slice(events_[i].name, ForLlmNameLen),
         date |-> Slice(Or(Get(events_[i], "date", None), DateInconnue),
                        ForLlmDateLen),
         desc |-> Slice(Or(Get(events_[i], "description", None), <<>>),
                        ForLlmDescLen)]]

get_ticketmaster_events_for_llm(has_key, response) ==
    LET out == TicketmasterOutcome(events, has_key, response, now) IN
    /\ events' = out.store
    /\ insertedBy' = Writers(events', out.added, Ticketmaster)
    /\ ret' = [op |-> "get_ticketmaster_events_for_llm", response |-> response,
               events |-> out.value]
                 @@ ForLlm(out, TicketmasterParts(out.value), AucunTicketmaster,
                           TicketmasterHeader)
    /\ UNCHANGED <<now, last_refresh, threads, local_cache>>

\* the wall clock advances between two calls
Tick ==
    /\ now < MaxTime
    /\ now' = now + 1
    /\ ret' = [op |-> "tick"]
    /\ UNCHANGED <<events, insertedBy, last_refresh, threads, local_cache>>

\* the warm-up thread that newapp.py starts and the thread of a request
ThreadNames == {"warmup", "request"}

Init ==
    /\ events = <<>>
    /\ insertedBy = <<>>
    /\ now = 0
    /\ ret = [op |-> "init"]
    /\ last_refresh = EmptyDict
    /\ local_cache = [cache |-> EmptyDict, expiry |-> EmptyDict]
    /\ threads = [th \in ThreadNames |-> [pc |-> "idle"]]

(***************************************************************************)
(* The store under direct calls of its insert, query and clear API.        *)
(***************************************************************************)
\* event dicts handed to add_event: the same name with two descriptions, the
\* name in another letter case and with a '_source' key of its own, and a
\* dict without a name
StoreEvents ==
    { [name |-> <<"a">>, description |-> <<"x">>],
      [name |-> <<"a">>, description |-> <<"y">>],
      [name |-> <<"A">>, description |-> <<"x">>, _source |-> Brussels],
      [description |-> <<"y">>] }

\* an id that no add_event returns
UnknownId == <<"d", "o", "e", "s", "n", "o", "t", "e", "x", "i", "s", "t">>

\* the two adapters that call add_event pass 'brussels' and 'ticketmaster'
AddStore ==
    \E event \in StoreEvents, source \in {Brussels, Ticketmaster} :
        add_event(event, source) /\ Len(events') <= MaxEvents

BySourceStore == \E source \in Sources : get_events_by_source(source)

\* clear(), clear(source) for each provider tag, and clear('')
ClearStore == \E source \in Sources \cup {None, <<>>} : clear(source)

NextStore == AddStore \/ BySourceStore \/ ClearStore \/ Tick

Spec == Init /\ [][NextStore]_vars

(***************************************************************************)
(* The store filled by add_event and by the Brussels adapter, and queried  *)
(* by name and by id.                                                      *)
(***************************************************************************)
\* two names of 31 characters with the same first 30, and one whose 30th
\* character is a space
Stem == Repeat("x", PrefixLen - 1) \o <<"y">>

LongA == Stem \o <<"a">>

LongB == Stem \o <<"b">>

StemSp == Repeat("x", PrefixLen - 1) \o <<" ">>

LongS == StemSp \o <<"a">>

FindEvents ==
    { [name |-> <<"a", "b">>],
      [name |-> <<"A", "b", " ">>],
      [name |-> LongA],
      [name |-> LongB],
      [name |-> LongS],
      [description |-> <<"x">>] }

FindQueries == { <<" ", "A", "B">>, Stem, StemSp, LongA, <<"z">>, LongA \o <<"c">> }

\* upstream events of the Brussels agenda: with a French name, with a French
\* translation that has no name, without a French translation, and with a
\* place that has no French translation
Place == [translations |-> [fr |-> [name |-> <<"v">>, address_line1 |-> <<"r">>]]]

BrusselsUpstream ==
    { [translations |-> [fr |-> [name |-> <<"a", "b">>,
                                 shortdescr |-> <<"x", "\n", "y">>]],
       place |-> Place, date_start |-> <<"1", "T", "2">>, is_free |-> TRUE],
      [translations |-> [fr |-> [longdescr |-> <<"x">>]],
       place |-> Place, date_start |-> <<"1", "T", "2">>],
      [translations |-> [nl |-> [name |-> <<"n">>]], place |-> Place],
      [translations |-> [fr |-> [name |-> <<"z">>]],
       place |-> [translations |-> [nl |-> [name |-> <<"v">>]]]] }

RECURSIVE Pages(_)
Pages(n) ==
    IF n = 0 THEN {<<>>}
    ELSE Pages(n - 1)
           \cup {Append(p, e) : p \in {q \in Pages(n - 1) : Len(q) = n - 1},
                                e \in BrusselsUpstream}

BrusselsResponses ==
    {[ok |-> FALSE]} \cup {[ok |-> TRUE, events |-> p] : p \in Pages(MaxPage)}

AddFind ==
    \E event \in FindEvents :
        add_event(event, Ticketmaster) /\ Len(events') <= MaxFound

FetchBrussels ==
    \E response \in BrusselsResponses :
        fetch_brussels_to_cache(response) /\ Len(events') <= MaxFound

FindByName ==
    \E name \in FindQueries, fuzzy \in BOOLEAN : find_event_by_name(name, fuzzy)

GetById == \E event_id \in Keys(events) \cup {UnknownId} : get_event(event_id)

ClearFind == \E source \in {None, Brussels} : clear(source)

NextFind == AddFind \/ FetchBrussels \/ FindByName \/ GetById \/ ClearFind

SpecFind == Init /\ [][NextFind]_vars

(***************************************************************************)
(* The store read by the full-view resolvers.                              *)
(***************************************************************************)
\* records with every field of the full view, and records in which a field is
\* absent, None, empty or blank; the dates are a timestamp, a day number, a
\* weekday with a day number and a blank
ResolveEvents ==
    { [name |-> <<"a">>, date |-> <<"1", "T", "2", "+", "3">>, venue |-> <<"v">>,
       address |-> <<"r">>, price |-> <<"5">>, description |-> <<"x">>,
       url |-> <<"u">>],
      [name |-> <<"b">>, date_start |-> <<"4">>, price |-> <<" ">>],
      [name |-> <<"c">>, price |-> None, description |-> <<" ">>,
       date |-> <<"T", "u", "e", " ", "5">>],
      [name |-> <<>>],
      [name |-> <<"d">>, price |-> <<>>, url |-> <<" ">>, date |-> <<" ">>,
       venue |-> <<" ">>] }

\* the sequences over S of length at most n
RECURSIVE SeqsUpTo(_, _)
SeqsUpTo(S, n) ==
    IF n = 0 THEN {<<>>}
    ELSE SeqsUpTo(S, n - 1)
           \cup {Append(q, x) : q \in {r \in SeqsUpTo(S, n - 1) : Len(r) = n - 1},
                                x \in S}

\* sep.join(parts)
RECURSIVE Join(_, _)
Join(parts, sep) ==
    IF parts = <<>> THEN <<>>
    ELSE IF Len(parts) = 1 THEN parts[1]
    ELSE parts[1] \o sep \o Join(Tail(parts), sep)

\* ids a caller may pass: the ids of the store, bare or padded with blanks,
\* and an id that is not in the store
IdChoices ==
    Keys(events) \cup {<<" ">> \o k \o <<" ">> : k \in Keys(events)} \cup {UnknownId}

AddResolve ==
    \E event \in ResolveEvents, source \in {Brussels, Ticketmaster} :
        add_event(event, source) /\ Len(events') <= MaxEvents

DetailsByIdsResolve ==
    \E parts \in SeqsUpTo(IdChoices \cup {<<>>}, MaxIds) :
        get_event_details_by_ids(Join(parts, <<",">>))

FullDetailsResolve ==
    \E event_ids \in SeqsUpTo(IdChoices, MaxIds) : get_full_event_details(event_ids)

NextResolve ==
    \/ AddResolve
    \/ DetailsByIdsResolve
    \/ FullDetailsResolve
    \/ format_events_to_text
    \/ clear(None)

SpecResolve == Init /\ [][NextResolve]_vars

(***************************************************************************)
(* The store filled by the adapters and read through the minimal views.    *)
(***************************************************************************)
\* a dateTime as Ticketmaster gives it
IsoDateTime ==
    <<"2", "0", "2", "5", "-", "0", "1", "-", "0", "1", "T", "2",
      "0", ":", "0", "0", ":", "0", "0", "Z">>

\* upstream events of Ticketmaster: with a dateTime and an info text of two
\* lines, with a name of 81 characters and a note of 101, and without a name
TicketmasterUpstream ==
    { [name |-> <<"a", "b">>, dates |-> [start |-> [dateTime |-> IsoDateTime]],
       info |-> <<"x", "\n", "y">>, url |-> <<"u">>,
       priceRanges |-> <<[min |-> 5, max |-> 9]>>,
       _embedded |-> [venues |-> <<[name |-> <<"v">>,
                                    address |-> [line1 |-> <<"r">>]]>>]],
      [name |-> Repeat("n", ForLlmNameLen + 1),
       dates |-> [start |-> [localDate |-> <<"4">>]],
       pleaseNote |-> Repeat("d", SummaryDescLen + 1), url |-> <<"u">>,
       priceRanges |-> <<[min |-> 12]>>],
      [dates |-> [start |-> [localDate |-> <<"4">>]], url |-> <<"u">>] }

\* the answers of Ticketmaster: a failed request, a body without events and
\* the pages of events
TicketmasterResponses ==
    {[ok |-> FALSE], [ok |-> TRUE, data |-> [page |-> [totalElements |-> 0]]]}
        \cup {[ok |-> TRUE, data |-> [_embedded |-> [events |-> p]]] :
                 p \in SeqsUpTo(TicketmasterUpstream, MaxPage) \ {<<>>}}

MinimalTicketmaster ==
    \E has_key \in BOOLEAN, response \in TicketmasterResponses :
        get_ticketmaster_events_for_llm(has_key, response) /\ Len(events') <= MaxEvents

MinimalBrussels ==
    \E response \in BrusselsResponses :
        get_brussels_events_for_llm(response) /\ Len(events') <= MaxEvents

LlmSummary ==
    \E source \in {None, Brussels, Ticketmaster}, limit \in {0, 1, SummaryLimit} :
        get_llm_summary(source, limit)

ClearMinimal == clear(None)

NextMinimal == MinimalTicketmaster \/ MinimalBrussels \/ LlmSummary \/ ClearMinimal

SpecMinimal == Init /\ [][NextMinimal]_vars

(***************************************************************************)
(* The three fetch adapters against their upstream answers.                *)
(***************************************************************************)
\* upstream events of Eventbrite: with a description of two lines, and without
\* a name
EventbriteUpstream ==
    { [name |-> [text |-> <<"a", "b">>], start |-> [local |-> <<"4">>],
       url |-> <<"u">>, description |-> [text |-> <<"x", "\n", "y">>]],
      [start |-> [local |-> <<"4">>], url |-> <<"u">>] }

\* the answers of one venue: the request raises, a status 500, a body that is
\* not JSON, and the pages of events
VenueAnswers ==
    {[raises |-> TRUE], [raises |-> FALSE, status |-> 500],
     [raises |-> FALSE, status |-> HttpOk, json |-> FALSE]}
        \cup {[raises |-> FALSE, status |-> HttpOk, json |-> TRUE, events |-> p] :
                 p \in SeqsUpTo(EventbriteUpstream, MaxPage)}

EventbriteAnswers == {a \in SeqsUpTo(VenueAnswers, MaxVenues) : Len(a) = MaxVenues}

BrusselsFetch ==
    \E response \in BrusselsResponses :
        fetch_brussels_to_cache(response) /\ Len(events') <= MaxEvents

TicketmasterFetch ==
    \E has_key \in BOOLEAN, response \in TicketmasterResponses :
        fetch_ticketmaster_to_cache(has_key, response) /\ Len(events') <= MaxEvents

EventbriteFetch ==
    \E force_refresh \in BOOLEAN, cache_ttl \in {1, CacheTtl},
       answers \in EventbriteAnswers :
        fetch_events_to_cache(force_refresh, cache_ttl, answers)

ClearFetch == clear(None)

NextFetch == BrusselsFetch \/ TicketmasterFetch \/ EventbriteFetch \/ ClearFetch \/ Tick

SpecFetch == Init /\ [][NextFetch]_vars

(***************************************************************************)
(* Properties of the store.                                                *)
(***************************************************************************)
\* the keys that add_event injects
Injected == {"_id", "_source", "_cached_at"}

NameOf(d) == Get(d, "name", <<>>)

CountKey(store, k) == Cardinality({i \in 1..Len(store) : store[i].k = k})

\* the last call was an add_event that found a record under the same
\* (source, name)
SecondInsert ==
    /\ ret.op = "add_event"
    /\ ret.before # Absent
    /\ ret.before[1]._source = ret.source
    /\ NameOf(ret.before[1]) = NameOf(ret.event)

\* C1: after add_event has been called a second time for the same
\* (source, name), the store holds exactly one record under the id, and
\* get_event on it returns the incidental fields and the time of the second
\* insert.
C1_LastWriteWins ==
    SecondInsert =>
        /\ CountKey(events, ret.value) = 1
        /\ Lookup(events, ret.value) # Absent
        /\ \A f \in DOMAIN ret.event \ Injected :
              /\ f \in DOMAIN Lookup(events, ret.value)[1]
              /\ Lookup(events, ret.value)[1][f] = ret.event[f]
        /\ Lookup(events, ret.value)[1]._cached_at = IsoFormat(now)

C1_Witness ==
    /\ SecondInsert
    /\ Len(events) = 2
    /\ ret.before[1].description # ret.event.description
    /\ Lookup(events, ret.value)[1].description = ret.event.description

\* C2: the id under which a record was stored, whenever and into whatever
\* store it was inserted, is the id that _generate_id computes for its
\* source and name in the present state; so is the id the last add_event
\* returned.
C2_IdDeterministic ==
    /\ \A i \in 1..Len(events) :
          events[i].k = _generate_id(NameOf(events[i].v), insertedBy[events[i].k])
    /\ ret.op = "add_event" =>
          ret.value = _generate_id(NameOf(ret.event), ret.source)

C2_Witness ==
    /\ ret.op = "clear"
    /\ Len(events) = 1
    /\ now > 0
    /\ events[1].v._cached_at = IsoFormat(0)

\* names on which the hashed key is compared, the separator included
KeyNames ==
    {<<>>, <<"a">>, <<"A">>, <<":">>, <<":", "a">>, <<"a", ":">>, <<"a", "b">>,
     <<"A", "B">>, <<"b">>}

KeysInjective ==
    \A s1 \in Sources, s2 \in Sources, n1 \in KeyNames, n2 \in KeyNames :
        HashedKey(n1, s1) = HashedKey(n2, s2) => s1 = s2 /\ Lower(n1) = Lower(n2)

\* C3: the hashed keys of two (source, name) pairs are equal only if the
\* sources are equal and the names are equal up to letter case; add_event
\* replaces a record only of the same source and case-folded name, so the
\* same name under two sources makes two records.
C3_SourceInIdentity ==
    /\ KeysInjective
    /\ (ret.op = "add_event" /\ ret.before # Absent) =>
          /\ ret.before[1]._source = ret.source
          /\ Lower(NameOf(ret.before[1])) = Lower(NameOf(ret.event))
    /\ \A i \in 1..Len(events), j \in 1..Len(events) :
          (/\ i # j
           /\ Lower(NameOf(events[i].v)) = Lower(NameOf(events[j].v)))
             => events[i].v._source # events[j].v._source

C3_Witness ==
    /\ ret.op = "add_event"
    /\ Len(events) = 2
    /\ NameOf(events[1].v) = NameOf(events[2].v)
    /\ events[1].v._source # events[2].v._source
    /\ events[1].k # events[2].k

\* C4: every record that get_events_by_source(A) returns was inserted by an
\* add_event whose source argument was A, whatever '_source' key the
\* inserted dict carried.
C4_IsolationBySource ==
    ret.op = "get_events_by_source" =>
        \A i \in 1..Len(ret.value) : insertedBy[ret.value[i]._id] = ret.source

\* the dict named "A" carries '_source': 'brussels' and was inserted under
\* ticketmaster, beside a record of brussels
C4_Witness ==
    /\ ret.op = "get_events_by_source"
    /\ ret.source = Ticketmaster
    /\ Len(ret.value) = 1
    /\ NameOf(ret.value[1]) = <<"A">>
    /\ Len(events) = 2
    /\ \E i \in 1..2 : insertedBy[events[i].k] = Brussels

\* C5 as stated: get_event on the returned id gives a record holding every
\* field of the inserted event, '_id' the returned id, '_source' the given
\* source and a '_cached_at' timestamp.
C5_AsStated ==
    ret.op = "add_event" =>
        LET r == Lookup(events, ret.value) IN
        /\ r # Absent
        /\ \A f \in DOMAIN ret.event : f \in DOMAIN r[1] /\ r[1][f] = ret.event[f]
        /\ r[1]._id = ret.value
        /\ r[1]._source = ret.source
        /\ "_cached_at" \in DOMAIN r[1]

\* C5: get_event on the returned id gives a record holding every field of the
\* inserted event other than the injected keys, '_id' the returned id,
\* '_source' the given source and '_cached_at' the time of the call.
C5_RoundTrip ==
    ret.op = "add_event" =>
        LET r == Lookup(events, ret.value) IN
        /\ r # Absent
        /\ \A f \in DOMAIN ret.event \ Injected :
              f \in DOMAIN r[1] /\ r[1][f] = ret.event[f]
        /\ r[1]._id = ret.value
        /\ r[1]._source = ret.source
        /\ r[1]._cached_at = IsoFormat(now)

C5_Witness ==
    /\ ret.op = "add_event"
    /\ "_source" \in DOMAIN ret.event
    /\ ret.event._source # ret.source
    /\ Lookup(events, ret.value)[1].name = ret.event.name
    /\ now > 0

(***************************************************************************)
(* Properties of the lookup by name.                                       *)
(***************************************************************************)
\* the name of a stored record equals the query after case-folding and
\* trimming
IsExact(event, name) ==
    /\ NameField(event) # None
    /\ ExactMatch(event, Strip(Lower(name)))

\* the record matches the query by containment or by its first 30 characters
\* and not exactly
IsFuzzyOnly(event, name) ==
    /\ NameField(event) # None
    /\ ~ExactMatch(event, Strip(Lower(name)))
    /\ FuzzyMatch(event, Strip(Lower(name)))

\* C6: when the store holds a record that matches the query exactly and
\* another that matches it only fuzzily, find_event_by_name returns a record
\* that matches exactly.
C6_ExactPrecedence ==
    (/\ ret.op = "find_event_by_name"
     /\ \E i \in 1..Len(events) : IsExact(events[i].v, ret.name)
     /\ \E j \in 1..Len(events) : IsFuzzyOnly(events[j].v, ret.name))
        => /\ ret.outcome = "return"
           /\ ret.value # Absent
           /\ IsExact(ret.value[1], ret.name)

\* the stored record i has a name of more than 30 characters of which the
\* query is the first 30
IsTruncationOf(name, i) ==
    /\ NameField(events[i].v) # None
    /\ Len(NameField(events[i].v)) > PrefixLen
    /\ name = Slice(NameField(events[i].v), PrefixLen)

\* C7: find_event_by_name with fuzzy on, called with the first 30 characters
\* of a stored name of more than 30 characters, returns a record; it returns
\* that record when no other stored name matches the query exactly or
\* fuzzily.
C7_TruncatedNameResolves ==
    \A i \in 1..Len(events) :
        (ret.op = "find_event_by_name" /\ ret.fuzzy /\ IsTruncationOf(ret.name, i))
            => /\ ret.outcome = "return"
               /\ ret.value # Absent
               /\ (\A j \in 1..Len(events) :
                      j # i => /\ ~IsExact(events[j].v, ret.name)
                               /\ ~IsFuzzyOnly(events[j].v, ret.name))
                     => ret.value[1] = events[i].v

\* C8: get_event and find_event_by_name raise nothing; they return a stored
\* record or absent.
C8_LookupsNeverRaise ==
    ret.op \in {"get_event", "find_event_by_name"} =>
        /\ ret.outcome = "return"
        /\ \/ ret.value = Absent
           \/ \E i \in 1..Len(events) : ret.value = Some(events[i].v)

(***************************************************************************)
(* Properties of the full-view resolvers.                                  *)
(***************************************************************************)
Known(event_id) == Lookup(events, event_id) # Absent

\* C9: each resolver gives one slot per input id, and the slot of an id that
\* is not in the store is a 'not found' placeholder.
C9_OneSlotPerId ==
    /\ ret.op = "get_event_details_by_ids" =>
          /\ Len(ret.value) = Len(ret.ids)
          /\ \A k \in 1..Len(ret.ids) :
                ~Known(ret.ids[k]) => ret.value[k].kind = "not_found"
    /\ ret.op \in {"get_full_event_details", "format_events_to_text"} =>
          Len(ret.value) = Len(ret.event_ids)

\* C10: block k of the full view carries the number k and describes input
\* id k: the record stored under it, or its 'not found' placeholder.
C10_OutputOrderIsInputOrder ==
    /\ ret.op = "get_event_details_by_ids" =>
          \A k \in 1..Len(ret.value) :
              /\ ret.value[k].idx = k
              /\ IF Known(ret.ids[k])
                 THEN /\ ret.value[k].kind = "event"
                      /\ ret.value[k].name
                            = Format(Get(Lookup(events, ret.ids[k])[1], "name", Unknown))
                 ELSE /\ ret.value[k].kind = "not_found"
                      /\ ret.value[k].event_id = ret.ids[k]
    /\ ret.op = "format_events_to_text" =>
          \A k \in 1..Len(ret.value) :
              /\ ret.value[k].idx = k
              /\ Known(Strip(ret.event_ids[k]))
              /\ ret.value[k].name
                    = Format(Get(Lookup(events, Strip(ret.event_ids[k]))[1],
                                 "name", Unknown))

\* the field f of the record is absent, None, empty or whitespace-only
Blank(event, f) ==
    \/ f \notin DOMAIN event
    \/ event[f] = None
    \/ Strip(event[f]) = <<>>

\* the records that the ids of the last resolver call name, in input order
RECURSIVE Resolved(_)
Resolved(ids) ==
    IF ids = <<>> THEN <<>>
    ELSE (IF Known(Strip(Head(ids)))
          THEN <<Lookup(events, Strip(Head(ids)))[1]>> ELSE <<>>)
            \o Resolved(Tail(ids))

\* the blocks of found records in the last resolver output
EventBlocks == SelectSeq(ret.value, LAMBDA b : b.kind = "event")

\* C11: in the output of either resolver, the price line of a record whose
\* price is absent, None, empty or whitespace-only carries the placeholder
\* 'Prix non précisé'.
C11_PricePlaceholder ==
    /\ ret.op = "get_event_details_by_ids" =>
          \A k \in 1..Len(EventBlocks) :
              Blank(Resolved(ret.ids)[k], "price") => EventBlocks[k].price = PrixNonPrecise
    /\ ret.op = "format_events_to_text" =>
          \A k \in 1..Len(EventBlocks) :
              Blank(Resolved(ret.event_ids)[k], "price")
                  => EventBlocks[k].price = PrixNonPrecise

(***************************************************************************)
(* Properties of the minimal views.                                        *)
(***************************************************************************)
\* the lines of a text
TextLines(text) == IF text = <<>> THEN <<>> ELSE Split(text, "\n")

\* C12: the text that get_llm_summary(source, limit) returns has min(limit, M)
\* lines, M being the number of stored records that match the source.
C12_MinOfLimitAndMatches ==
    ret.op = "get_llm_summary" =>
        Len(TextLines(ret.value)) = Min(ret.limit, Len(OfSource(events, ret.source)))

\* C13: in every line of a minimal view the name has at most 80 characters,
\* the date at most 16 and the description at most 100.
C13_FieldBounds ==
    ret.op \in {"get_llm_summary", "get_brussels_events_for_llm",
                "get_ticketmaster_events_for_llm"} =>
        \A i \in 1..Len(ret.parts) :
            /\ Len(Format(ret.parts[i].name)) <= ForLlmNameLen
            /\ Len(Format(ret.parts[i].date)) <= ForLlmDateLen
            /\ Len(ret.parts[i].desc) <= SummaryDescLen

(***************************************************************************)
(* Properties of clear.                                                    *)
(***************************************************************************)
\* the records of the store that are not tagged with the source, unchanged and
\* in their order
Untagged(store, source) == SelectSeq(store, LAMBDA e : e.v._source # source)

\* C14: a step of clear() leaves the store empty; a step of clear(source)
\* leaves exactly the records that were not tagged with source, unchanged.
C14_ClearRemovesExactlyTheSource ==
    [][ret'.op = "clear" =>
           events' = IF ret'.source = None THEN <<>>
                     ELSE Untagged(events, ret'.source)]_vars

(***************************************************************************)
(* Properties of the fetch adapters.                                       *)
(***************************************************************************)
\* the events of the page that Ticketmaster answered
TicketmasterPage(response) ==
    Get(Get(response.data, "_embedded", EmptyDict), "events", <<>>)

\* an upstream event of Brussels that has a French translation without a name
BrusselsNameless(event) ==
    /\ "fr" \in DOMAIN event.translations
    /\ Get(event.translations.fr, "name", None) = None

\* the last call was an adapter that asked upstream and got a page in which
\* some record has no name and nothing else is missing
NamelessInPage ==
    \/ /\ ret.op = "fetch_brussels_to_cache"
       /\ ret.response.ok
       /\ \E i \in 1..Len(ret.response.events) : BrusselsNameless(ret.response.events[i])
       /\ \A i \in 1..Len(ret.response.events) : ~RaisesKeyError(ret.response.events[i])
    \/ /\ ret.op = "fetch_ticketmaster_to_cache"
       /\ ret.has_key
       /\ ret.response.ok
       /\ \E i \in 1..Len(TicketmasterPage(ret.response)) :
             "name" \notin DOMAIN TicketmasterPage(ret.response)[i]
       /\ \A i \in 1..Len(TicketmasterPage(ret.response)) :
             {"dates", "url"} \subseteq DOMAIN TicketmasterPage(ret.response)[i]
    \/ /\ ret.op = "fetch_events_to_cache"
       /\ ret.requests = Len(ret.answers)
       /\ \A i \in 1..Len(ret.answers) :
             /\ ~ret.answers[i].raises
             /\ ret.answers[i].status = HttpOk
             /\ ret.answers[i].json
             /\ \A j \in 1..Len(ret.answers[i].events) :
                   {"start", "url"} \subseteq DOMAIN ret.answers[i].events[j]
       /\ \E i \in 1..Len(ret.answers) : \E j \in 1..Len(ret.answers[i].events) :
             "name" \notin DOMAIN ret.answers[i].events[j]

\* the records of the page that have a name are in the store
NamedRegistered ==
    /\ ret.op = "fetch_brussels_to_cache" =>
          \A i \in 1..Len(ret.response.events) :
              LET e == ret.response.events[i] IN
              ("fr" \in DOMAIN e.translations /\ ~BrusselsNameless(e))
                  => _generate_id(e.translations.fr.name, Brussels) \in Keys(events)
    /\ ret.op = "fetch_ticketmaster_to_cache" =>
          \A i \in 1..Len(TicketmasterPage(ret.response)) :
              LET e == TicketmasterPage(ret.response)[i] IN
              "name" \in DOMAIN e => _generate_id(e.name, Ticketmaster) \in Keys(events)

\* C15: no stored record lacks a name; an adapter that meets a record without
\* a name in the page returns normally and has registered the named records.
C15_NamelessRecordSkipped ==
    /\ \A i \in 1..Len(events) :
          "name" \in DOMAIN events[i].v /\ events[i].v.name # None
    /\ NamelessInPage => ret.outcome = "return" /\ NamedRegistered

\* the last call was an adapter whose upstream requests all failed: the
\* request raised, the status was not 200 or the body was not JSON
UpstreamFailed ==
    \/ ret.op = "fetch_brussels_to_cache" /\ ~ret.response.ok
    \/ ret.op = "fetch_ticketmaster_to_cache" /\ ret.has_key /\ ~ret.response.ok
    \/ /\ ret.op = "fetch_events_to_cache"
       /\ ret.requests > 0
       /\ \A i \in 1..Len(ret.answers) :
             \/ ret.answers[i].raises
             \/ ret.answers[i].status # HttpOk
             \/ ~ret.answers[i].json

\* C16: an adapter whose upstream request fails returns the empty list,
\* raises nothing and leaves the store as it was.
C16_FailedRequestGivesEmptyList ==
    UpstreamFailed =>
        /\ ret.outcome = "return"
        /\ ret.value = <<>>
        /\ events = ret.before

\* the call r of an adapter of the store asked upstream and returned normally
Fetched(r) ==
    /\ r.op \in {"fetch_brussels_to_cache", "fetch_ticketmaster_to_cache"}
    /\ r.outcome = "return"
    /\ r.requests > 0
    /\ r.response.ok

\* the provider tag of an adapter
TagOf(op) ==
    IF op = "fetch_brussels_to_cache" THEN Brussels
    ELSE IF op = "fetch_ticketmaster_to_cache" THEN Ticketmaster
    ELSE Eventbrite

\* C17: a successful fetch records the refresh time of its source in the
\* store, and the next call of the same adapter, less than ttl_seconds later,
\* makes no upstream request.
C17_NoRefetchWithinTtl ==
    [][/\ Fetched(ret') => TagOf(ret'.op) \in DOMAIN last_refresh'
       /\ (Fetched(ret) /\ ret'.op = ret.op /\ now' - now < ttl_seconds)
             => ret'.requests = 0]_vars

\* C18: every event that an adapter returns is in the store under the id of
\* the adapter's tag and the event's name.
C18_ReturnedEventsAreRegistered ==
    (/\ ret.op \in {"fetch_brussels_to_cache", "fetch_ticketmaster_to_cache",
                    "fetch_events_to_cache"}
     /\ ret.outcome = "return")
        => \A i \in 1..Len(ret.value) :
              _generate_id(Get(ret.value[i], "name", <<>>), TagOf(ret.op))
                  \in Keys(events)

(***************************************************************************)
(* Properties of the fuzzy fallback.                                       *)
(***************************************************************************)
\* the query is contained in the name of the record or contains it
ContainmentMatch(event, name) ==
    LET name_lower == Strip(Lower(name))
        event_name == Lower(NameField(event))
    IN  Contains(name_lower, event_name) \/ Contains(event_name, name_lower)

\* the record shares its first 30 characters with the query and neither
\* contains the other
PrefixOnlyMatch(event, name) ==
    /\ ~ContainmentMatch(event, name)
    /\ Slice(Strip(Lower(name)), PrefixLen) = Slice(Lower(NameField(event)), PrefixLen)

\* C19: when no stored name equals the query, one record matches it by
\* containment and another only by its first 30 characters, the fuzzy lookup
\* returns a record that matches by containment.
C19_ContainmentBeforePrefix ==
    (/\ ret.op = "find_event_by_name"
     /\ ret.fuzzy
     /\ ret.outcome = "return"
     /\ \A i \in 1..Len(events) :
           NameField(events[i].v) # None /\ ~IsExact(events[i].v, ret.name)
     /\ \E i \in 1..Len(events) : ContainmentMatch(events[i].v, ret.name)
     /\ \E j \in 1..Len(events) : PrefixOnlyMatch(events[j].v, ret.name))
        => /\ ret.value # Absent
           /\ ContainmentMatch(ret.value[1], ret.name)

(***************************************************************************)
(* Properties of the full-view block.                                      *)
(***************************************************************************)
\* the texts that the six lines of a block carry after their markers
BlockTexts(block) ==
    {block.name, block.date, block.location, block.price, block.url,
     block.description}

\* C20: in the output of either resolver, each of the six lines of the block
\* of a stored record carries text that is not empty and not blank.
C20_NoEmptyLine ==
    ret.op \in {"get_event_details_by_ids", "format_events_to_text"} =>
        \A k \in 1..Len(EventBlocks) :
            \A text \in BlockTexts(EventBlocks[k]) : Strip(text) # <<>>

(***************************************************************************)
(* The date line of the full view.                                         *)
(***************************************************************************)
Digit(c) == \E d \in 0..9 : ToString(d) = c

\* a date and a time joined by the separator 'T'
IsTimestamp(date) ==
    \E i \in 2..(Len(date) - 1) :
        date[i] = "T" /\ Digit(date[i - 1]) /\ Digit(date[i + 1])

\* the date that a resolver reads from a record
StoredDate(event) ==
    Or(Or(Get(event, "date", None), Get(event, "date_start", None)), DateInconnue)

\* the records found by the last resolver call, in input order
Found ==
    Resolved(IF ret.op = "get_event_details_by_ids" THEN ret.ids ELSE ret.event_ids)

\* C21: in the output of either resolver, the date of a record that is no
\* timestamp is printed character for character, and rewriting a printed
\* date a second time changes nothing.
C21_OnlyTimestampsRewritten ==
    ret.op \in {"get_event_details_by_ids", "format_events_to_text"} =>
        \A k \in 1..Len(EventBlocks) :
            /\ ~IsTimestamp(StoredDate(Found[k])) =>
                    EventBlocks[k].date = StoredDate(Found[k])
            /\ RewriteDate(EventBlocks[k].date) = EventBlocks[k].date

(***************************************************************************)
(* The fields that the minimal views withhold.                             *)
(***************************************************************************)
Withheld == {"venue", "address", "price", "url"}

Other == <<"z", "z">>

\* a record that differs from event in nothing but the withheld fields
\* (how == "other": other values, how == "none": no such keys) or in the
\* description after its first n characters (how == "longer")
Vary(event, how, n) ==
    CASE how = "other" -> Merge(event, [f \in Withheld |-> Other])
      [] how = "none" -> [f \in DOMAIN event \ Withheld |-> event[f]]
      [] how = "longer" ->
            IF /\ "description" \in DOMAIN event
               /\ event.description # None
               /\ Len(event.description) >= n
            THEN [event EXCEPT !.description = Slice(@, n) \o Other]
            ELSE event
      [] OTHER -> event

Hows == {"same", "other", "none", "longer"}

\* the lists of records that differ from records in nothing else
VariantsOf(records, n) ==
    {[i \in 1..Len(records) |-> Vary(records[i], how[i], n)] :
        how \in [1..Len(records) -> Hows]}

\* the stores that differ from the store in nothing else
VariantStores(n) ==
    {[i \in 1..Len(events) |-> [k |-> events[i].k, v |-> recs[i]]] :
        recs \in VariantsOf(Values(events), n)}

\* C22: the text of a minimal view is the same for every store, or list of
\* fetched records, that differs from the one it was computed from only in
\* venue, address, price, url or the description beyond the truncation point.
C22_WithheldFieldsDoNotShow ==
    /\ ret.op = "get_llm_summary" =>
          \A store \in VariantStores(SummaryDescLen) :
              ViewText(SummaryParts(store, ret.source, ret.limit)) = ret.value
    /\ (ret.op = "get_brussels_events_for_llm" /\ ret.outcome = "return"
            /\ ret.events # <<>>) =>
          \A records \in VariantsOf(ret.events, ForLlmDescLen) :
              BrusselsHeader \o ViewText(BrusselsParts(records)) = ret.value
    /\ (ret.op = "get_ticketmaster_events_for_llm" /\ ret.outcome = "return"
            /\ ret.events # <<>>) =>
          \A records \in VariantsOf(ret.events, ForLlmDescLen) :
              TicketmasterHeader \o ViewText(TicketmasterParts(records)) = ret.value

\* a summary of a store that holds a record with a price and a description
\* longer than the summary keeps
C22_Witness ==
    /\ ret.op = "get_llm_summary"
    /\ \E i \in 1..Len(ret.parts) :
          LET event == Lookup(events, ret.parts[i].id)[1] IN
          /\ "price" \in DOMAIN event
          /\ "description" \in DOMAIN event
          /\ event.description # None
          /\ Len(event.description) > SummaryDescLen

(***************************************************************************)
(* Callers that keep a dict: the one they passed to add_event, of which    *)
(* add_event stores a copy ({**event, ...}), and the one they got from     *)
(* get_event, which is the stored dict itself (self.events.get(event_id)). *)
(* The caller assigns to a key of the dict right after the call.           *)
(***************************************************************************)
\* d[key] = value on a dict
SetItem(d, key, value) == Merge(d, key :> value)

\* event[key] = value after event_cache.add_event(event, source)
SetItemPassed(key, value) ==
    /\ ret.op = "add_event"
    /\ ret' = [op |-> "setitem", of |-> "add_event", event_id |-> ret.value,
               event |-> SetItem(ret.event, key, value),
               before |-> Lookup(events, ret.value)]
    /\ UNCHANGED <<events, insertedBy, now, last_refresh, threads, local_cache>>

\* event = event_cache.get_event(event_id); event[key] = value
SetItemReturned(key, value) ==
    /\ ret.op = "get_event"
    /\ ret.value # Absent
    /\ events' = Put(events, ret.event_id, SetItem(ret.value[1], key, value))
    /\ ret' = [op |-> "setitem", of |-> "get_event", event_id |-> ret.event_id,
               event |-> SetItem(ret.value[1], key, value),
               before |-> ret.value]
    /\ UNCHANGED <<insertedBy, now, last_refresh, threads, local_cache>>

\* the second record lacks the price of the first
AliasEvents ==
    { [name |-> <<"a">>, description |-> <<"x">>, price |-> <<"5">>],
      [name |-> <<"a">>, description |-> <<"y">>],
      [name |-> <<"b">>] }

AddAlias ==
    \E event \in AliasEvents, source \in {Brussels, Ticketmaster} :
        add_event(event, source) /\ Len(events') <= MaxEvents

GetAlias == \E event_id \in Keys(events) \cup {UnknownId} : get_event(event_id)

SetPassedAlias ==
    \E key \in {"price", "name"}, value \in {<<"9">>} : SetItemPassed(key, value)

SetReturnedAlias ==
    \E key \in {"price", "name"}, value \in {<<"9">>} : SetItemReturned(key, value)

ClearAlias == \E source \in {None, Brussels} : clear(source)

NextAlias ==
    \/ AddAlias
    \/ GetAlias
    \/ SetPassedAlias
    \/ SetReturnedAlias
    \/ ClearAlias
    \/ Tick

SpecAlias == Init /\ [][NextAlias]_vars

\* C23: after a second add_event for the same source and name the stored
\* record holds the fields of the second event and no field of the first,
\* and an assignment by a caller to the dict it passed to add_event or got
\* from get_event leaves the stored record as it was.
C23_ReplacedNotPatched ==
    /\ (ret.op = "add_event" /\ ret.before # Absent) =>
          LET record == Lookup(events, ret.value)[1] IN
          \A f \in DOMAIN record \ Injected :
              f \in DOMAIN ret.event /\ record[f] = ret.event[f]
    /\ ret.op = "setitem" => Lookup(events, ret.event_id) = ret.before

(***************************************************************************)
(* fetch_all_events_minimal of newAgent.py and testAgent.py: the three     *)
(* minimal views, each in a try block of its own.  The community-events    *)
(* view get_eventBrite_events_for_llm is imported by both agents and is    *)
(* defined in no source file; it is modelled after the two other views,    *)
(* over the list that fetch_events_to_cache() returns.                     *)
(***************************************************************************)
\* the keys of mapping
Categories ==
    { <<"m", "u", "s", "i", "c">>,
      <<"s", "p", "o", "r", "t">>,
      <<"a", "r", "t">>,
      <<"c", "u", "l", "t", "u", "r", "e">>,
      <<"t", "h", "e", "a", "t", "r", "e">>,
      <<"c", "i", "n", "e", "m", "a">>,
      <<"f", "a", "m", "i", "l", "y">>,
      <<"f", "e", "s", "t", "i", "v", "a", "l">>,
      <<"p", "a", "r", "t", "y">>,
      <<"n", "a", "t", "u", "r", "e">> }

AucunEventbrite ==
    <<"A", "u", "c", "u", "n", " ", "é", "v", "é", "n", "e", "m", "e", "n",
      "t", " ", "E", "v", "e", "n", "t", "B", "r", "i", "t", "e", " ", "d",
      "i", "s", "p", "o", "n", "i", "b", "l", "e", ".">>

EventbriteHeader ==
    <<"-", "-", "-", " ", "E", "V", "E", "N", "T", "B", "R", "I", "T", "E",
      " ", "-", "-", "-", "\n">>

EventbriteErrorHeader ==
    <<"-", "-", "-", " ", "E", "V", "E", "N", "T", "B", "R", "I", "T", "E",
      " ", "E", "R", "R", "O", "R", " ", "-", "-", "-", "\n">>

BrusselsErrorHeader ==
    <<"-", "-", "-", " ", "B", "R", "U", "S", "S", "E", "L", "S", " ", "A",
      "P", "I", " ", "E", "R", "R", "O", "R", " ", "-", "-", "-", "\n">>

TicketmasterErrorHeader ==
    <<"-", "-", "-", " ", "T", "I", "C", "K", "E", "T", "M", "A", "S", "T",
      "E", "R", " ", "E", "R", "R", "O", "R", " ", "-", "-", "-", "\n">>

\* f"CATEGORY_ERROR: La catégorie '{category}' n'est pas reconnue. ..."
CategoryError(category) ==
    <<"C", "A", "T", "E", "G", "O", "R", "Y", "_", "E", "R", "R", "O", "R",
      ":", " ", "L", "a", " ", "c", "a", "t", "é", "g", "o", "r", "i", "e",
      " ", "'">>
        \o category \o <<"'", " ", "...">>

\* the instruction that newAgent appends to the combined text
Instruction == <<"IMPORTANT: ...">>

\* str(e) of an exception
StrOf(exc) == <<"str(" \o exc \o ")">>

\* the parts of the lines of get_eventBrite_events_for_llm
EventbriteParts(events_) ==
    [i \in 1..Min(ForLlmEvents, Len(events_)) |->
        [id |-> Get(events_[i], "_id", NA),
         name |-> Slice(Or(Get(events_[i], "name", None), Unknown), ForLlmNameLen),
         date |-> Slice(Or(Get(events_[i], "date", None), DateInconnue),
                        ForLlmDateLen),
         desc |-> Slice(Or(Get(events_[i], "description", None), <<>>),
                        ForLlmDescLen)]]

\* what one try block sees of a view: its text, or the exception
TryView(out, parts, none, header) ==
    ForLlm(out, parts, none, header)
        @@ [exc |-> IF out.outcome = "raise" THEN out.exc ELSE "none"]

\* results if one try block held the three calls
MinimalResultsOneTry(agent, views) ==
    LET raised == {i \in 1..Len(views) : views[i].outcome = "raise"}
        n == IF raised = {} THEN Len(views) ELSE First(raised) - 1
    IN  [i \in 1..n |-> views[i].value]

\* results: newAgent appends an error block for a view that raised,
\* testAgent appends nothing for it
MinimalResults(agent, views) ==
    LET headers == <<EventbriteErrorHeader, BrusselsErrorHeader,
                     TicketmasterErrorHeader>>
        all == [i \in 1..Len(views) |->
                   IF views[i].outcome = "return" THEN views[i].value
                   ELSE headers[i] \o StrOf(views[i].exc)]
        kept == {i \in 1..Len(views) : views[i].outcome = "return"}
    IN  IF agent = "newAgent" THEN all
        ELSE [j \in 1..Cardinality(kept) |->
                 views[CHOOSE i \in kept :
                          Cardinality({h \in kept : h <= i}) = j].value]

\* answers, response, tm_response: the upstream answers to the three adapters
fetch_all_events_minimal(agent, category, answers, response, has_key, tm_response) ==
    LET cat_lower == Strip(Lower(category))
        eb == EventbriteOutcome(local_cache, FALSE, CacheTtl, answers, now)
        bru == BrusselsOutcome(events, response, now)
        tm == TicketmasterOutcome(bru.store, has_key, tm_response, now)
        views == <<TryView(eb, EventbriteParts(eb.value), AucunEventbrite,
                           EventbriteHeader),
                   TryView(bru, BrusselsParts(bru.value), AucunBrussels,
                           BrusselsHeader),
                   TryView(tm, TicketmasterParts(tm.value), AucunTicketmaster,
                           TicketmasterHeader)>>
        combined == Join(MinimalResults(agent, views), <<"\n", "\n">>)
        \* testAgent with a category that mapping lacks: categoryTM and
        \* categoryBru are unbound and each try block catches the error
        unbound == [i \in 1..3 |-> Raise("UnboundLocalError")]
    IN  IF cat_lower \notin Categories
        THEN /\ ret' = [op |-> "fetch_all_events_minimal", agent |-> agent,
                        category |-> category, known |-> FALSE, views |-> unbound]
                          @@ Return(IF agent = "newAgent" THEN CategoryError(category)
                                    ELSE Join(MinimalResults(agent, unbound),
                                              <<"\n", "\n">>))
             /\ UNCHANGED <<events, insertedBy, now, last_refresh, threads, local_cache>>
        ELSE /\ events' = tm.store
             /\ insertedBy' =
                    [k \in Keys(tm.store) |->
                        IF k \in tm.added THEN Ticketmaster
                        ELSE IF k \in bru.added THEN Brussels
                        ELSE insertedBy[k]]
             /\ local_cache' = eb.lc
             /\ ret' = [op |-> "fetch_all_events_minimal", agent |-> agent,
                        category |-> category, known |-> TRUE, views |-> views]
                          @@ Return(IF agent = "newAgent"
                                    THEN combined \o <<"\n", "\n">> \o Instruction
                                    ELSE combined)
             /\ UNCHANGED <<now, last_refresh, threads>>

\* the upstream answers to one call: for each adapter a failure, an answer
\* without events and an answer with one event that has a name; for the
\* Brussels and Ticketmaster adapters also an event that makes them raise
AllAnswers ==
    {<<[raises |-> TRUE]>>}
        \cup {<<[raises |-> FALSE, status |-> HttpOk, json |-> TRUE, events |-> p]>> :
                 p \in {<<>>} \cup {<<e>> : e \in {u \in EventbriteUpstream :
                                                      ~EventbriteRaises(u)}}}

AllBrussels ==
    {[ok |-> FALSE]}
        \cup {[ok |-> TRUE, events |-> <<e>>] :
                 e \in {u \in BrusselsUpstream :
                           /\ "fr" \in DOMAIN u.translations
                           /\ "name" \in DOMAIN u.translations.fr}}

AllTicketmaster ==
    {[has_key |-> FALSE, response |-> [ok |-> FALSE]],
     [has_key |-> TRUE, response |-> [ok |-> FALSE]]}
        \cup {[has_key |-> TRUE,
               response |-> [ok |-> TRUE, data |-> [_embedded |-> [events |-> <<e>>]]]] :
                 e \in {u \in TicketmasterUpstream :
                           "name" \notin DOMAIN u \/ Len(u.name) < ForLlmNameLen}}

\* a category of mapping, in another case and padded, and one that mapping
\* lacks
AllCategories == {<<" ", "A", "r", "t", " ">>, <<"f", "o", "o", "d">>}

FetchAll ==
    \E agent \in {"newAgent", "testAgent"}, category \in AllCategories,
       answers \in AllAnswers, response \in AllBrussels, tm \in AllTicketmaster :
        /\ fetch_all_events_minimal(agent, category, answers, response,
                                    tm.has_key, tm.response)
        /\ Len(events') <= MaxEvents

ClearAll == clear(None)

NextAll == FetchAll \/ ClearAll

SpecAll == Init /\ [][NextAll]_vars

\* the views of the last call that returned a text
Returned == {i \in 1..Len(ret.views) : ret.views[i].outcome = "return"}

\* C24: a call of fetch_all_events_minimal with a category of mapping
\* returns, each adapter whose view returned has its text in the returned
\* text whatever the two other views did, and the records that the views of
\* the Brussels and Ticketmaster adapters list are in the store.
C24_AdaptersAreIndependent ==
    (ret.op = "fetch_all_events_minimal" /\ ret.known) =>
        /\ ret.outcome = "return"
        /\ \A i \in Returned : Contains(ret.views[i].value, ret.value)
        /\ \A i \in Returned \cap {2, 3} :
              \A j \in 1..Len(ret.views[i].parts) : Known(ret.views[i].parts[j].id)

\* the first view raised, the second returned lines and the third returned
\* its text for an empty result
C24_Witness ==
    /\ ret.op = "fetch_all_events_minimal"
    /\ ret.known
    /\ ret.views[1].outcome = "raise"
    /\ ret.views[2].outcome = "return"
    /\ ret.views[2].parts # <<>>
    /\ ret.views[3].outcome = "return"
    /\ ret.views[3].value = AucunTicketmaster

(***************************************************************************)
(* newapp.py starts a thread that runs warmup_cache while the process goes *)
(* on to serve requests.  Both threads run fetch_events_to_cache on the    *)
(* one local_cache; a thread switch can fall between any two statements,   *)
(* so each statement of CacheWithTTL.get and CacheWithTTL.set is a step.   *)
(***************************************************************************)
\* the thread th moves to position pc with the local variables of locals
Goto(th, pc, locals) ==
    threads' = [threads EXCEPT ![th] = locals @@ [pc |-> pc] @@ threads[th]]

At(th, pc) == threads[th].pc = pc

\* fetch_events_to_cache(force_refresh) is called on the thread th
CallFetch(th, force_refresh) ==
    /\ At(th, "idle")
    /\ Goto(th, IF force_refresh THEN "fetch" ELSE "get_in", EmptyDict)
    /\ ret' = [op |-> "call", thread |-> th]
    /\ UNCHANGED <<events, insertedBy, now, last_refresh, local_cache>>

\* get: if key in self.cache
GetIn(th) ==
    /\ At(th, "get_in")
    /\ Goto(th, IF CacheKey \in DOMAIN local_cache.cache THEN "get_now" ELSE "fetch",
            EmptyDict)
    /\ ret' = [op |-> "get", thread |-> th]
    /\ UNCHANGED <<events, insertedBy, now, last_refresh, local_cache>>

\* get: the left operand datetime.now() of the comparison
GetNow(th) ==
    /\ At(th, "get_now")
    /\ Goto(th, "get_expiry", [left |-> now])
    /\ ret' = [op |-> "get", thread |-> th]
    /\ UNCHANGED <<events, insertedBy, now, last_refresh, local_cache>>

\* get: ... < self.expiry.get(key, datetime.now())
GetExpiry(th) ==
    /\ At(th, "get_expiry")
    /\ Goto(th, IF threads[th].left < Get(local_cache.expiry, CacheKey, now)
                THEN "get_return" ELSE "del_cache", EmptyDict)
    /\ ret' = [op |-> "get", thread |-> th]
    /\ UNCHANGED <<events, insertedBy, now, last_refresh, local_cache>>

\* get: return self.cache[key], and "if cached_data:" of the caller
GetReturn(th) ==
    /\ At(th, "get_return")
    /\ Goto(th, IF CacheKey \notin DOMAIN local_cache.cache THEN "raised"
                ELSE IF local_cache.cache[CacheKey] # <<>> THEN "done"
                ELSE "fetch",
            IF CacheKey \notin DOMAIN local_cache.cache
            THEN [exc |-> "KeyError", in |-> "get"] ELSE EmptyDict)
    /\ ret' = [op |-> "get", thread |-> th]
    /\ UNCHANGED <<events, insertedBy, now, last_refresh, local_cache>>

\* get: del self.cache[key]
DelCache(th) ==
    /\ At(th, "del_cache")
    /\ IF CacheKey \in DOMAIN local_cache.cache
       THEN /\ local_cache' = [local_cache EXCEPT !.cache = Delete(@, CacheKey)]
            /\ Goto(th, "del_expiry", EmptyDict)
       ELSE /\ Goto(th, "raised", [exc |-> "KeyError", in |-> "get"])
            /\ UNCHANGED local_cache
    /\ ret' = [op |-> "get", thread |-> th]
    /\ UNCHANGED <<events, insertedBy, now, last_refresh>>

\* get: del self.expiry[key], and return None
DelExpiry(th) ==
    /\ At(th, "del_expiry")
    /\ IF CacheKey \in DOMAIN local_cache.expiry
       THEN /\ local_cache' = [local_cache EXCEPT !.expiry = Delete(@, CacheKey)]
            /\ Goto(th, "fetch", [deleted |-> [expiry |-> local_cache.expiry[CacheKey],
                                               at |-> now]])
       ELSE /\ Goto(th, "raised", [exc |-> "KeyError", in |-> "get"])
            /\ UNCHANGED local_cache
    /\ ret' = [op |-> "get", thread |-> th]
    /\ UNCHANGED <<events, insertedBy, now, last_refresh>>

\* the loop over IdList; an exception leaves fetch_events_to_cache
FetchVenues(th, answers) ==
    LET out == VenueLoop(answers) IN
    /\ At(th, "fetch")
    /\ Goto(th, IF out.outcome = "raise" THEN "raised" ELSE "set_cache",
            IF out.outcome = "raise" THEN [exc |-> out.exc, in |-> "fetch"]
            ELSE [all_events |-> out.value])
    /\ ret' = [op |-> "fetch", thread |-> th]
    /\ UNCHANGED <<events, insertedBy, now, last_refresh, local_cache>>

\* set: self.cache[key] = value
SetCache(th) ==
    /\ At(th, "set_cache")
    /\ local_cache' = [local_cache EXCEPT
                          !.cache = Set(@, CacheKey, threads[th].all_events)]
    /\ Goto(th, "set_expiry", EmptyDict)
    /\ ret' = [op |-> "set", thread |-> th]
    /\ UNCHANGED <<events, insertedBy, now, last_refresh>>

\* set: self.expiry[key] = datetime.now() + timedelta(seconds=ttl_seconds)
SetExpiry(th) ==
    /\ At(th, "set_expiry")
    /\ local_cache' = [local_cache EXCEPT !.expiry = Set(@, CacheKey, now + CacheTtl)]
    /\ Goto(th, "done", EmptyDict)
    /\ ret' = [op |-> "set", thread |-> th]
    /\ UNCHANGED <<events, insertedBy, now, last_refresh>>

\* newapp.py: threading.Thread(target=warmup_cache, daemon=True).start()
warmup_cache == CallFetch("warmup", TRUE)

\* a request that reaches fetch_events_to_cache()
RequestFetch == CallFetch("request", FALSE)

\* one statement of one thread
Step ==
    \E th \in ThreadNames :
        \/ GetIn(th)
        \/ GetNow(th)
        \/ GetExpiry(th)
        \/ GetReturn(th)
        \/ DelCache(th)
        \/ DelExpiry(th)
        \/ \E answers \in AllAnswers : FetchVenues(th, answers)
        \/ SetCache(th)
        \/ SetExpiry(th)

\* a later request, when the thread of the last one has ended
NextRequest ==
    /\ threads["request"].pc \in {"done", "raised"}
    /\ threads' = [threads EXCEPT !["request"] = [pc |-> "idle"]]
    /\ ret' = [op |-> "end", thread |-> "request"]
    /\ UNCHANGED <<events, insertedBy, now, last_refresh, local_cache>>

NextWarmup == warmup_cache \/ RequestFetch \/ Step \/ NextRequest \/ Tick

SpecWarmup == Init /\ [][NextWarmup]_vars

\* C25: while the warm-up thread and a request run fetch_events_to_cache,
\* CacheWithTTL.get raises in no thread and deletes no entry whose expiry
\* lies in the future.
C25_GetIsSafeUnderWarmup ==
    \A th \in ThreadNames :
        /\ ~(At(th, "raised") /\ threads[th].in = "get")
        /\ "deleted" \in DOMAIN threads[th] =>
              threads[th].deleted.expiry <= threads[th].deleted.at

(***************************************************************************)
(* The time-to-live of the list that fetch_events_to_cache keeps.          *)
(***************************************************************************)
\* a fetch has completed and its list is still kept
Kept == CacheKey \in DOMAIN local_cache.cache

\* the kept list has not expired
Live == Kept /\ now < local_cache.expiry[CacheKey]

\* C26: a call of fetch_events_to_cache without force_refresh before the
\* kept list expires returns that list and asks nothing upstream, whatever
\* the list; a call with force_refresh asks upstream; a call at or after the
\* expiry asks upstream and the expired entry is gone or replaced.
C26_CachedListServedUntilExpiry ==
    [][ret'.op = "fetch_events_to_cache" =>
          /\ (~ret'.force_refresh /\ Live) =>
                /\ ret'.requests = 0
                /\ ret'.outcome = "return"
                /\ ret'.value = local_cache.cache[CacheKey]
          /\ ret'.force_refresh => ret'.requests > 0
          /\ (~ret'.force_refresh /\ Kept /\ ~Live) =>
                /\ ret'.requests > 0
                /\ \/ CacheKey \notin DOMAIN local_cache'.cache
                   \/ now < local_cache'.expiry[CacheKey]]_vars

(***************************************************************************)
(* The store under names that differ in letter case, in surrounding        *)
(* whitespace or not at all.                                               *)
(***************************************************************************)
\* a name, the same in capitals, the same with a trailing and with a leading
\* space, a blank name, and the name of an upstream event whose name is null
NameEvents ==
    { [name |-> <<"a", "b">>],
      [name |-> <<"A", "B">>],
      [name |-> <<"a", "b", " ">>],
      [name |-> <<" ", "a", "b">>],
      [name |-> <<" ">>],
      [name |-> None] }

\* an empty and a blank query, and a query that equals a name above
NameQueries == { <<>>, <<" ">>, <<"a", "b", " ">> }

AddNames ==
    \E event \in NameEvents :
        add_event(event, Ticketmaster) /\ Len(events') <= MaxEvents

FindNames ==
    \E name \in NameQueries, fuzzy \in BOOLEAN : find_event_by_name(name, fuzzy)

ClearNames == clear(None)

NextNames == AddNames \/ FindNames \/ ClearNames \/ Tick

SpecNames == Init /\ [][NextNames]_vars

\* two names that differ in letter case only
CaseOnly(n1, n2) == n1 # n2 /\ Lower(n1) = Lower(n2)

\* two names that differ in leading or trailing whitespace only
SpaceOnly(n1, n2) == n1 # n2 /\ Lower(n1) # Lower(n2) /\ Strip(n1) = Strip(n2)

\* the records that equal the query after case-folding and trimming
Trimmed(name) ==
    {i \in 1..Len(events) :
        /\ NameField(events[i].v) # None
        /\ Strip(Lower(NameField(events[i].v))) = Strip(Lower(name))}

\* C27: under one source, names that differ only in letter case have one id
\* and the later add_event replaces the record of the earlier one; names that
\* differ only in surrounding whitespace have two ids and are kept as two
\* records, and a find_event_by_name that returns gives the first record
\* that equals the query after trimming, not the record of the query itself.
C27_CaseFoldedNotTrimmed ==
    /\ \A e1 \in NameEvents, e2 \in NameEvents :
          /\ CaseOnly(e1.name, e2.name) =>
                _generate_id(e1.name, Ticketmaster) = _generate_id(e2.name, Ticketmaster)
          /\ SpaceOnly(e1.name, e2.name) =>
                _generate_id(e1.name, Ticketmaster) # _generate_id(e2.name, Ticketmaster)
    /\ (ret.op = "add_event" /\ ret.before # Absent) =>
          /\ Lower(NameOf(ret.before[1])) = Lower(NameOf(ret.event))
          /\ CountKey(events, ret.value) = 1
          /\ NameOf(Lookup(events, ret.value)[1]) = NameOf(ret.event)
    /\ ret.op = "add_event" =>
          \A i \in 1..Len(events) :
              (/\ events[i].v._source = ret.source
               /\ SpaceOnly(NameOf(events[i].v), NameOf(ret.event)))
                 => /\ events[i].k # ret.value
                    /\ Lookup(events, ret.value) # Absent
    /\ (/\ ret.op = "find_event_by_name"
        /\ ret.outcome = "return"
        /\ Trimmed(ret.name) # {})
          => ret.value = Some(events[First(Trimmed(ret.name))].v)

\* the later of two names in capitals and in small letters has replaced the
\* earlier, the same name with a trailing space is kept beside it, and a
\* query for the name with the space has returned the record without it
C27_Witness ==
    /\ ret.op = "find_event_by_name"
    /\ ret.name = <<"a", "b", " ">>
    /\ Len(events) = 2
    /\ NameOf(events[1].v) = <<"A", "B">>
    /\ events[1].v._cached_at = IsoFormat(1)
    /\ NameOf(events[2].v) = <<"a", "b", " ">>
    /\ events[1].v._source = events[2].v._source
    /\ ret.value = Some(events[1].v)

\* the query is empty after trimming, and the store holds records whose
\* names are all non-empty
EmptyQuery ==
    /\ ret.op = "find_event_by_name"
    /\ Strip(ret.name) = <<>>
    /\ events # <<>>
    /\ \A i \in 1..Len(events) : NameField(events[i].v) # <<>>

\* C30: find_event_by_name with a query that is empty after trimming, on a
\* non-empty store without an empty name, returns the first record in
\* insertion order when fuzzy is on and absent when fuzzy is off.
C30_EmptyQueryFindsFirst ==
    EmptyQuery =>
        /\ ret.outcome = "return"
        /\ ret.value = IF ret.fuzzy THEN Some(events[1].v) ELSE Absent

(***************************************************************************)
(* The keys of the store.                                                  *)
(***************************************************************************)
\* the record is stored under its own '_id', which is the id of its
\* '_source' and 'name', and under no second key
KeyedByItsId(i) ==
    /\ events[i].v._id = events[i].k
    /\ events[i].k = _generate_id(NameOf(events[i].v), events[i].v._source)
    /\ CountKey(events, events[i].k) = 1

\* C28: in every state that add_event and clear reach, each key of the store
\* maps to a record whose '_id' is the key and whose '_source' and 'name'
\* give that key as their id, no two records share an id, and a record of
\* the same source and name has the same id after every step.
C28_KeyedByIdOfSourceAndName ==
    /\ [](\A i \in 1..Len(events) : KeyedByItsId(i))
    /\ [][\A i \in 1..Len(events), j \in 1..Len(events') :
            (/\ events[i].v._source = events'[j].v._source
             /\ NameOf(events[i].v) = NameOf(events'[j].v))
               => /\ events'[j].v._id = events[i].v._id
                  /\ events'[j].k = events[i].k]_vars

\* a dict that carries a '_source' of its own has replaced a record of the
\* same name in other letters, beside a record that has no name
C28_Witness ==
    /\ ret.op = "add_event"
    /\ ret.before # Absent
    /\ NameOf(ret.before[1]) # NameOf(ret.event)
    /\ "_source" \in DOMAIN ret.event
    /\ ret.event._source # ret.source
    /\ Len(events) = 2
    /\ \E i \in 1..2 : "name" \notin DOMAIN events[i].v

(***************************************************************************)
(* How long a record stays: the store under add_event, the Brussels        *)
(* adapter, get_event, clear and the passing of time.                      *)
(***************************************************************************)
AddKeep ==
    \E event \in StoreEvents :
        add_event(event, Ticketmaster) /\ Len(events') <= MaxEvents

FetchKeep ==
    \E response \in BrusselsResponses :
        fetch_brussels_to_cache(response) /\ Len(events') <= MaxEvents

GetKeep == \E event_id \in Keys(events) \cup {UnknownId} : get_event(event_id)

ClearKeep == \E source \in {None, <<>>, Brussels, Ticketmaster} : clear(source)

NextKeep == AddKeep \/ FetchKeep \/ GetKeep \/ ClearKeep \/ Tick

SpecKeep == Init /\ [][NextKeep]_vars

\* the step is a clear() or a clear of the source of the record
ClearsRecord(event) ==
    /\ ret'.op = "clear"
    /\ ret'.source \in {None, event._source}

\* the records have one source and one case-folded name
SameIdentity(e1, e2) ==
    /\ e1._source = e2._source
    /\ Lower(Format(NameField(e1))) = Lower(Format(NameField(e2)))

\* C29: a record that add_event has stored stays under its id, with its
\* source and case-folded name, across every step of add_event, of an adapter
\* and of the clock that is no clear() and no clear of its source, and
\* get_event on its id returns it.
C29_KeptUntilCleared ==
    [][/\ \A i \in 1..Len(events) :
             ~ClearsRecord(events[i].v) =>
                 /\ Lookup(events', events[i].k) # Absent
                 /\ SameIdentity(Lookup(events', events[i].k)[1], events[i].v)
       /\ (ret'.op = "get_event" /\ ret'.event_id \in Keys(events)) =>
             /\ ret'.outcome = "return"
             /\ ret'.value = Lookup(events, ret'.event_id)
             /\ ret'.value # Absent]_vars

====
